---- MODULE Spec2Model ----
(***************************************************************************)
(* Voxel chunk store, terrain generation and tree placement of the         *)
(* minecraft crate (chunk.rs, blocks/, structures/tree.rs, utils.rs,       *)
(* effects.rs).                                                            *)
(*                                                                         *)
(* f32 values are fixed-point numbers: the integer n stands for the real   *)
(* n / SCALE, so that floor, the saturating `as usize` cast and the        *)
(* truncating `as i32` cast are real conversions.                          *)
(***************************************************************************)
EXTENDS Integers, Sequences, FiniteSets, TLC

\* ---------------------------------------------------------------- bounds
\* the fixed-point numerator of 0.5: f32 values are multiples of 1 / (2 * HALF)
HALF == 1
\* denominator of the fixed-point representation of f32 values
SCALE == 2 * HALF
\* largest height a caller passes to the chunk store
MaxY == 9
\* number of chunk-store calls made on one chunk after its generation
MaxOps == 2
\* number of different behaviours of the seeded generator that are explored
MaxSalt == 2
\* number of reader / writer threads on one grid
NThreads == 3
\* columns that create_blocks_data has still to populate when threads start
LockUnpopulated == 1

\* ------------------------------------------------- constants of world.rs
CHUNK_SIZE == 16
WATER_HEIGHT_LEVEL == 5
MAX_TREES_PER_CHUNK == 3
NOISE_SIZE == 1024
NOISE_CHUNK_PER_ROW == NOISE_SIZE \div CHUNK_SIZE
RNG_SEED == 0

\* ------------------------------------------------------ numeric helpers
\* an integer as f32 (`n as f32`)
F(n) == n * SCALE

\* f32::floor
Floor(f) == (f \div SCALE) * SCALE

\* `f as usize` / `f as u32`: truncates toward zero and saturates at 0
AsUsize(f) == IF f < 0 THEN 0 ELSE f \div SCALE

\* `f as i32`: truncates toward zero
AsI32(f) == IF f >= 0 THEN f \div SCALE ELSE -((-f) \div SCALE)

\* Rust's `%` on signed integers and on f32: the sign follows the dividend
RustRem(a, b) == IF a >= 0 THEN a % b ELSE -((-a) % b)

\* A u64 is a pair << k, v >> that stands for k * 2^64 + v, with k in {0, 1}.
\* `i as u64` for an i32 (two's complement, sign extended)
I32AsU64(i) == IF i >= 0 THEN << 0, i >> ELSE << 1, i >>

\* `n as u64` for a u32
U32AsU64(n) == << 0, n >>

\* a + b on u64 with b small, wrapping at 2^64
U64Add(a, b) == IF a[1] = 1 /\ a[2] + b >= 0 THEN << 0, a[2] + b >> ELSE << a[1], a[2] + b >>

Max(a, b) == IF a >= b THEN a ELSE b

Abs(a) == IF a >= 0 THEN a ELSE -a

\* i32::MAX
MAX_I32 == 2147483647

\* a + b on i32, wrapping at 2^31 (the sum of a release build)
I32WrappingAdd(a, b) ==
    IF a > 0 /\ b > MAX_I32 - a THEN (a - MAX_I32 - 1) + (b - MAX_I32 - 1)
    ELSE IF a < 0 /\ b < (-MAX_I32 - 1) - a THEN (a + MAX_I32 + 1) + (b + MAX_I32 + 1)
    ELSE a + b

\* a * b on i32 leaves the range of i32: a debug build panics here
I32MulOverflows(a, b) ==
    /\ a # 0
    /\ b # 0
    /\ IF (a > 0) = (b > 0)
       THEN Abs(b) > MAX_I32 \div Abs(a)
       ELSE Abs(b) - 1 > (MAX_I32 - Abs(a) + 1) \div Abs(a)

\* a * b on i32, wrapping at 2^31, by doubling a for each bit of b >= 0
RECURSIVE I32WrappingMulBits(_, _)
I32WrappingMulBits(a, b) ==
    IF b = 0 THEN 0
    ELSE LET rest == I32WrappingMulBits(I32WrappingAdd(a, a), b \div 2)
         IN  IF b % 2 = 1 THEN I32WrappingAdd(rest, a) ELSE rest

\* a * b on i32 with |a|, |b| < 2^31: the product, wrapped when it overflows
I32Mul(a, b) ==
    IF ~I32MulOverflows(a, b) THEN a * b
    ELSE IF b > 0 THEN I32WrappingMulBits(a, b)
    ELSE I32WrappingMulBits(-a, -b)

\* ------------------------------------------------------------- the block
BlockTypes == {"Grass", "Dirt", "Water", "Wood", "Leaf", "Stone", "Sand"}

\* Option::None in a slot of a column, and as a lookup result
None == [block_type |-> "None"]

\* Block::new; the collision box is a function of absolute_position
Block_new(position, chunk, block_type) ==
    [position |-> position,
     absolute_position |->
        << F(chunk[1] * CHUNK_SIZE + AsI32(position[1])),
           position[2],
           F(chunk[2] * CHUNK_SIZE + AsI32(position[3])) >>,
     block_type |-> block_type]

\* Block::get_chunk_coords
get_chunk_coords(b) ==
    << b.absolute_position[1] \div (SCALE * CHUNK_SIZE),
       b.absolute_position[3] \div (SCALE * CHUNK_SIZE) >>

\* --------------------------------------------------- coordinate utilities
\* relative_from_absolute with one remainder only: a negative remainder stays
relative_from_absolute_NoWrap(p) ==
    << RustRem(Floor(p[1]), F(CHUNK_SIZE)),
       Max(Floor(p[2]), F(0)),
       RustRem(Floor(p[3]), F(CHUNK_SIZE)) >>

\* relative_from_absolute that does not floor x and z
relative_from_absolute_NoFloor(p) ==
    << RustRem(RustRem(p[1], F(CHUNK_SIZE)) + F(CHUNK_SIZE), F(CHUNK_SIZE)),
       Max(Floor(p[2]), F(0)),
       RustRem(RustRem(p[3], F(CHUNK_SIZE)) + F(CHUNK_SIZE), F(CHUNK_SIZE)) >>

\* Vec3::relative_from_absolute
relative_from_absolute(p) ==
    << RustRem(RustRem(Floor(p[1]), F(CHUNK_SIZE)) + F(CHUNK_SIZE), F(CHUNK_SIZE)),
       Max(Floor(p[2]), F(0)),
       RustRem(RustRem(Floor(p[3]), F(CHUNK_SIZE)) + F(CHUNK_SIZE), F(CHUNK_SIZE)) >>

\* get_chunk_from_position_absolute with `as i32` in place of f32::floor
get_chunk_from_position_absolute_Truncates(p) ==
    LET truncated(a) == IF a >= 0 THEN a \div (SCALE * CHUNK_SIZE)
                        ELSE -((-a) \div (SCALE * CHUNK_SIZE))
    IN  << truncated(p[1]), truncated(p[3]) >>

\* Vec3::get_chunk_from_position_absolute
get_chunk_from_position_absolute(p) ==
    << p[1] \div (SCALE * CHUNK_SIZE), p[3] \div (SCALE * CHUNK_SIZE) >>

\* ------------------------------------------------------------- the state
VARIABLES
    chunk_x, chunk_y,   \* Chunk.x, Chunk.y
    blocks,             \* Chunk.blocks: the columns, each a sequence of slots
    outside_blocks,     \* Chunk.outside_blocks
    modified,           \* Chunk.modified
    panicked,           \* a call panicked; the grid's lock is poisoned
    noise,              \* which noise field Chunk.noise_data holds
    salt,               \* which behaviour the seeded generator StdRng has
    ops,                \* number of chunk-store calls made so far
    last,               \* the last call: its name, arguments and result
    pc,                 \* position inside Chunk::new
    col,                \* create_blocks_data: number of columns populated
    tries,              \* place_trees: iterations of `for _ in 0..100` begun
    number_of_trees,    \* place_trees: trees still to place
    rng,                \* place_trees: draws taken from its generator
    run,                \* how many times the generation has been run
    first,              \* the result of the first generation run
    contract_kept,      \* every add_block so far was given a checked position
    lockst,             \* per thread: what it holds of the grid's RwLock; in
                        \* place_trees: the guards its last iteration took
    tpc                 \* per thread: the call it is in and its position

vars == << chunk_x, chunk_y, blocks, outside_blocks, modified, panicked,
           noise, salt, ops, last, pc, col, tries, number_of_trees, rng,
           run, first, contract_kept, lockst, tpc >>

\* ------------------------------------------------------------ the grid
\* number of columns: (CHUNK_SIZE * CHUNK_SIZE) as usize
size == CHUNK_SIZE * CHUNK_SIZE

\* the slot at vertical index yi of column idx (both 0-based, as in Vec)
Slot(bl, idx, yi) == bl[idx + 1][yi + 1]

\* Resize that allocates one slot too many
Resize_OneMore(column, n) == column \o [i \in 1..(n + 1 - Len(column)) |-> None]

\* Vec::resize(n, None) of a column that is shorter than n
Resize(column, n) == column \o [i \in 1..(n - Len(column)) |-> None]

\* ColumnIndex with x and z exchanged
ColumnIndex_Transposed(position) == AsUsize(position[3] * CHUNK_SIZE + position[1])

\* index expression of add_block, remove_block and get_block_at_relative:
\* ((position.x * CHUNK_SIZE as f32) + position.z) as usize
ColumnIndex(position) == AsUsize(position[1] * CHUNK_SIZE + position[3])

\* index expression of exists_block_at:
\* ((position.x as u32 * CHUNK_SIZE) + position.z as u32) as usize
ColumnIndexU32(position) == AsUsize(position[1]) * CHUNK_SIZE + AsUsize(position[3])

\* Chunk::is_outside_chunk
is_outside_chunk(position) ==
    \/ position[1] < F(0)
    \/ position[1] >= F(CHUNK_SIZE)
    \/ position[3] < F(0)
    \/ position[3] >= F(CHUNK_SIZE)

\* Chunk::is_outside_bounds
is_outside_bounds(position) == position[2] < F(0)

\* Chunk::add_block panics: get_mut(..) is None and expect aborts
add_block_panics(bl, block) == ColumnIndex(block.position) >= Len(bl)

\* add_block that resizes the column whatever its length, and so truncates it
add_block_grid_Truncates(bl, block) ==
    LET idx == ColumnIndex(block.position)
        yi == AsUsize(block.position[2])
        y_blocks == bl[idx + 1]
        grown == IF yi >= Len(y_blocks) THEN Resize(y_blocks, yi + 1)
                 ELSE SubSeq(y_blocks, 1, yi + 1)
    IN  [bl EXCEPT ![idx + 1] = [grown EXCEPT ![yi + 1] = block]]

\* Chunk::add_block, the grid it leaves when it does not panic
add_block_grid(bl, block) ==
    LET idx == ColumnIndex(block.position)
        yi == AsUsize(block.position[2])
        y_blocks == bl[idx + 1]
        grown == IF yi >= Len(y_blocks) THEN Resize(y_blocks, yi + 1) ELSE y_blocks
    IN  [bl EXCEPT ![idx + 1] = [grown EXCEPT ![yi + 1] = block]]

\* add_block that sets the flag whatever modify_status is
add_block_modified_Always(md, modify_status) == TRUE

\* Chunk::add_block, the flag it leaves: `if modify_status { self.modified = true }`
add_block_modified(md, modify_status) == md \/ modify_status

\* Chunk::remove_block panics: the column is absent (expect) or the height
\* is not an index of the column (y_blocks[..] = None)
remove_block_panics(bl, position) ==
    \/ ColumnIndex(position) >= Len(bl)
    \/ AsUsize(position[2]) >= Len(bl[ColumnIndex(position) + 1])

\* Chunk::remove_block, the grid it leaves when it does not panic
remove_block_grid(bl, position) ==
    LET idx == ColumnIndex(position)
        yi == AsUsize(position[2])
    IN  [bl EXCEPT ![idx + 1] = [bl[idx + 1] EXCEPT ![yi + 1] = None]]

\* Chunk::get_block_at_relative
get_block_at_relative(bl, position) ==
    LET idx == ColumnIndex(position)
        yi == AsUsize(position[2])
    IN  IF idx < Len(bl)
        THEN IF yi < Len(bl[idx + 1]) THEN Slot(bl, idx, yi) ELSE None
        ELSE None

\* Chunk::exists_block_at
exists_block_at(bl, position) ==
    LET idx == ColumnIndexU32(position)
        yi == AsUsize(position[2])
    IN  /\ idx < Len(bl)
        /\ yi < Len(bl[idx + 1])
        /\ Slot(bl, idx, yi) # None

\* Chunk::block_type_at
block_type_at(bl, position) ==
    LET block == get_block_at_relative(bl, position)
    IN  IF block = None THEN "None" ELSE block.block_type

\* ------------------------------------------------------ seeded generator
\* denominator of a draw: rng.gen::<f32>() is RngF32(..) / RNG_DENOM in [0, 1)
RNG_DENOM == 16

\* the draws of one generator of the family, as numerators over RNG_DENOM
RNG_TABLE ==
    << 12, 0, 15, 7, 7, 9, 3, 5, 14, 15, 0, 8, 2, 6, 11, 1, 13, 4, 10 >>

\* the draws of a generator with a short period, which draws a column twice
RNG_TABLE_SHORT ==
    << 12, 15, 7, 15, 7 >>

\* StdRng::seed_from_u64(seed) followed by n + 1 calls of gen::<f32>(): the
\* generator is a fixed function of the seed and of the number of draws;
\* which function is left open (sl selects it)
RngF32(sl, seed, n) ==
    LET table == IF sl % 3 = 2 THEN RNG_TABLE_SHORT ELSE RNG_TABLE
    IN  table[((seed[1] * 11 + (seed[2] % 97) * 7 + sl * 5 + n) % Len(table)) + 1]

\* ------------------------------------------------------------ noise field
\* NoiseData: the sample at a flat index of the tile, as the value
\* powf(100.0, (v + 1.0) * 0.5) of its height remap
NoiseAt(nz, index) ==
    LET row == index \div NOISE_SIZE
        c == index % NOISE_SIZE
    IN  IF nz = 0 THEN 1 + ((row * 3 + c * 5) % 9)
        ELSE 1 + ((row + c * 2 + ((row * c) % 5)) % 4)

\* Chunk::get_height_value: the sample coordinate along one axis, for the
\* chunk coordinate c and the local coordinate v
sample_coordinate(c, v) ==
    LET w == (c * CHUNK_SIZE) + (v % NOISE_SIZE)
    IN  IF w < 0
        THEN NOISE_SIZE + RustRem(w, NOISE_CHUNK_PER_ROW * CHUNK_SIZE)
        ELSE w

\* Chunk::get_height_value: the index handed to noise_data.get
sample_index(cx, cy, x, z) ==
    sample_coordinate(cy, z) * NOISE_SIZE + sample_coordinate(cx, x)

\* Chunk::get_height_value
get_height_value(cx, cy, x, z, nz) ==
    LET index == sample_index(cx, cy, x, z)
    IN  IF index >= 0 /\ index < NOISE_SIZE * NOISE_SIZE
        THEN NoiseAt(nz, index) - 1
        ELSE 0

\* ------------------------------------------------------------ block types
STONE_THRESHOLD == << 15, 24 >>
SAND_THRESHOLD == << WATER_HEIGHT_LEVEL, WATER_HEIGHT_LEVEL + 2 >>

\* from_position whose sand band reaches one level higher
from_position_WideBand(sl, x, y, z) ==
    LET r == RngF32(sl, U64Add(U32AsU64(y * x * z), RNG_SEED), 0)
        sand == SAND_THRESHOLD[2] + 1 - SAND_THRESHOLD[1]
        stone == STONE_THRESHOLD[2] - STONE_THRESHOLD[1]
    IN  IF y <= SAND_THRESHOLD[1] THEN "Sand"
        ELSE IF y <= SAND_THRESHOLD[2] + 1
        THEN IF r * sand + (y - SAND_THRESHOLD[1]) * RNG_DENOM > RNG_DENOM * sand
             THEN "Dirt" ELSE "Sand"
        ELSE IF y < STONE_THRESHOLD[1] THEN "Dirt"
        ELSE IF y <= STONE_THRESHOLD[2]
        THEN IF r * stone + (y - STONE_THRESHOLD[1]) * RNG_DENOM >= RNG_DENOM * stone
             THEN "Stone" ELSE "Dirt"
        ELSE "Stone"

\* BlockType::from_position; r + calc_scalar(y, t) is compared with 1.0
\* after multiplying both sides by RNG_DENOM * (t[1] - t[0])
from_position(sl, x, y, z) ==
    LET r == RngF32(sl, U64Add(U32AsU64(y * x * z), RNG_SEED), 0)
        sand == SAND_THRESHOLD[2] - SAND_THRESHOLD[1]
        stone == STONE_THRESHOLD[2] - STONE_THRESHOLD[1]
    IN  IF y <= SAND_THRESHOLD[1] THEN "Sand"
        ELSE IF y <= SAND_THRESHOLD[2]
        THEN IF r * sand + (y - SAND_THRESHOLD[1]) * RNG_DENOM > RNG_DENOM * sand
             THEN "Dirt" ELSE "Sand"
        ELSE IF y < STONE_THRESHOLD[1] THEN "Dirt"
        ELSE IF y <= STONE_THRESHOLD[2]
        THEN IF r * stone + (y - STONE_THRESHOLD[1]) * RNG_DENOM >= RNG_DENOM * stone
             THEN "Stone" ELSE "Dirt"
        ELSE "Stone"

\* ------------------------------------------------------ terrain generation
\* create_column whose water loop stops below the water level
create_column_WaterShort(sl, cx, cy, x, z, nz) ==
    LET y_top == get_height_value(cx, cy, x, z, nz)
        terrain == [i \in 1..(y_top + 1) |->
                      LET y == i - 1
                          t == from_position(sl, x, y, z)
                      IN  Block_new(<< F(x), F(y), F(z) >>, << cx, cy >>,
                                    IF t = "Dirt" /\ y = y_top THEN "Grass" ELSE t)]
        water == [i \in 1..(WATER_HEIGHT_LEVEL - Len(terrain)) |->
                      Block_new(<< F(x), F(Len(terrain) + i - 1), F(z) >>,
                                << cx, cy >>, "Water")]
    IN  terrain \o water

\* create_column that promotes Dirt to Grass at every height
create_column_GrassBelow(sl, cx, cy, x, z, nz) ==
    LET y_top == get_height_value(cx, cy, x, z, nz)
        terrain == [i \in 1..(y_top + 1) |->
                      LET y == i - 1
                          t == from_position(sl, x, y, z)
                      IN  Block_new(<< F(x), F(y), F(z) >>, << cx, cy >>,
                                    IF t = "Dirt" THEN "Grass" ELSE t)]
        water == [i \in 1..(WATER_HEIGHT_LEVEL + 1 - Len(terrain)) |->
                      Block_new(<< F(x), F(Len(terrain) + i - 1), F(z) >>,
                                << cx, cy >>, "Water")]
    IN  terrain \o water

\* create_blocks_data, body of the loop over x and z: the column it builds
create_column(sl, cx, cy, x, z, nz) ==
    LET y_top == get_height_value(cx, cy, x, z, nz)
        terrain == [i \in 1..(y_top + 1) |->
                      LET y == i - 1
                          t == from_position(sl, x, y, z)
                      IN  Block_new(<< F(x), F(y), F(z) >>, << cx, cy >>,
                                    IF t = "Dirt" /\ y = y_top THEN "Grass" ELSE t)]
        water == [i \in 1..(WATER_HEIGHT_LEVEL + 1 - Len(terrain)) |->
                      Block_new(<< F(x), F(Len(terrain) + i - 1), F(z) >>,
                                << cx, cy >>, "Water")]
    IN  terrain \o water

\* create_blocks_data after n iterations of the loop body (x outer, z inner)
create_blocks_data_upto(sl, cx, cy, nz, n) ==
    [i \in 1..size |->
        IF i <= n
        THEN create_column(sl, cx, cy, (i - 1) \div CHUNK_SIZE, (i - 1) % CHUNK_SIZE, nz)
        ELSE << >>]

\* create_blocks_data
create_blocks_data(sl, cx, cy, nz) == create_blocks_data_upto(sl, cx, cy, nz, size)

\* ------------------------------------------------------------------ trees
trunk_pos == << << 0, 1, 0 >>, << 0, 2, 0 >>, << 0, 3, 0 >> >>

leafs_pos ==
    << << 0, 3, 1 >>, << 0, 4, 1 >>, << 1, 3, 1 >>, << 1, 4, 1 >>,
       << -1, 3, 1 >>, << -1, 4, 1 >>,
       << 0, 3, -1 >>, << 0, 4, -1 >>, << 1, 3, -1 >>, << 1, 4, -1 >>,
       << -1, 3, -1 >>, << -1, 4, -1 >>,
       << 1, 3, 0 >>, << 1, 4, 0 >>, << -1, 3, 0 >>, << -1, 4, 0 >>,
       << 0, 5, 0 >> >>

\* get_blocks that takes the owning chunk of the anchor for every block
get_blocks_AnchorChunk(position) ==
    LET at(o) == << position[1] + F(o[1]), position[2] + F(o[2]), position[3] + F(o[3]) >>
        mk(o, t) == Block_new(relative_from_absolute(at(o)),
                              get_chunk_from_position_absolute(position), t)
    IN  [i \in 1..Len(trunk_pos) |-> mk(trunk_pos[i], "Wood")]
        \o [i \in 1..Len(leafs_pos) |-> mk(leafs_pos[i], "Leaf")]

\* Tree::get_blocks
get_blocks(position) ==
    LET at(o) == << position[1] + F(o[1]), position[2] + F(o[2]), position[3] + F(o[3]) >>
        mk(o, t) == Block_new(relative_from_absolute(at(o)),
                              get_chunk_from_position_absolute(at(o)), t)
    IN  [i \in 1..Len(trunk_pos) |-> mk(trunk_pos[i], "Wood")]
        \o [i \in 1..Len(leafs_pos) |-> mk(leafs_pos[i], "Leaf")]

\* --------------------------------------------------------- tree placement
\* place_trees: the seed (self.x * 10 * self.y) as u64 + RNG_SEED
tree_seed(cx, cy) == U64Add(I32AsU64(I32Mul(I32Mul(cx, 10), cy)), RNG_SEED)

\* place_trees: evaluating the seed overflows, in the product or in the sum
tree_seed_overflows(cx, cy) ==
    LET product == I32AsU64(I32Mul(I32Mul(cx, 10), cy))
    IN  [product |-> I32MulOverflows(cx, 10) \/ I32MulOverflows(I32Mul(cx, 10), cy),
         sum |-> product[1] = 1 /\ product[2] + RNG_SEED >= 0]

\* place_trees: f32::floor(rng.gen::<f32>() * MAX_TREES_PER_CHUNK as f32) as u32
initial_number_of_trees(sl, cx, cy) ==
    (RngF32(sl, tree_seed(cx, cy), 0) * MAX_TREES_PER_CHUNK) \div RNG_DENOM

\* place_trees: f32::floor(rng.gen::<f32>() * CHUNK_SIZE as f32) as usize
draw_coordinate(sl, cx, cy, n) ==
    (RngF32(sl, tree_seed(cx, cy), n) * CHUNK_SIZE) \div RNG_DENOM

\* the part of a chunk that place_trees works on
TreeState(bl, out, md, nt, n, p) ==
    [blocks |-> bl, outside_blocks |-> out, modified |-> md, number_of_trees |-> nt,
     rng |-> n, panicked |-> p]

\* route_tree_blocks without the comparison of chunk coordinates: every block
\* goes through add_block
RECURSIVE route_tree_blocks_AllLocal(_, _, _, _, _)
route_tree_blocks_AllLocal(st, cx, cy, tree_blocks, i) ==
    IF i > Len(tree_blocks) \/ st.panicked THEN st
    ELSE LET block == tree_blocks[i]
         IN  IF add_block_panics(st.blocks, block)
             THEN [st EXCEPT !.panicked = TRUE]
             ELSE route_tree_blocks_AllLocal(
                    [st EXCEPT !.blocks = add_block_grid(st.blocks, block),
                               !.modified = add_block_modified(st.modified, FALSE)],
                    cx, cy, tree_blocks, i + 1)

\* place_trees, the loop over tree_blocks from its i-th block on: a block of
\* this chunk goes through add_block(block, false), any other is pushed to
\* outside_blocks
RECURSIVE route_tree_blocks(_, _, _, _, _)
route_tree_blocks(st, cx, cy, tree_blocks, i) ==
    IF i > Len(tree_blocks) \/ st.panicked THEN st
    ELSE LET block == tree_blocks[i]
         IN  IF get_chunk_coords(block) = << cx, cy >>
             THEN IF add_block_panics(st.blocks, block)
                  THEN [st EXCEPT !.panicked = TRUE]
                  ELSE route_tree_blocks(
                         [st EXCEPT !.blocks = add_block_grid(st.blocks, block),
                                    !.modified = add_block_modified(st.modified, FALSE)],
                         cx, cy, tree_blocks, i + 1)
             ELSE route_tree_blocks(
                    [st EXCEPT !.outside_blocks = Append(st.outside_blocks, block)],
                    cx, cy, tree_blocks, i + 1)

\* place_trees, the column index (x * CHUNK_SIZE as usize) + z of an attempt
attempt_column(sl, cx, cy, n) ==
    draw_coordinate(sl, cx, cy, n) * CHUNK_SIZE + draw_coordinate(sl, cx, cy, n + 1)

\* place_trees, reading the topmost block of the drawn column panics: the
\* column is absent or empty (expect) or its last slot is None (unwrap)
attempt_panics(st, sl, cx, cy) ==
    LET idx == attempt_column(sl, cx, cy, st.rng)
    IN  \/ idx >= Len(st.blocks)
        \/ Len(st.blocks[idx + 1]) = 0
        \/ st.blocks[idx + 1][Len(st.blocks[idx + 1])] = None

\* tree_attempt that skips a column with Water on top only
tree_attempt_SkipWaterOnly(st, sl, cx, cy) ==
    IF attempt_panics(st, sl, cx, cy)
    THEN [st EXCEPT !.panicked = TRUE, !.rng = st.rng + 2]
    ELSE LET block_column == st.blocks[attempt_column(sl, cx, cy, st.rng) + 1]
             highest_block == block_column[Len(block_column)]
             drawn == [st EXCEPT !.rng = st.rng + 2]
         IN  IF highest_block.block_type = "Water"
             THEN drawn
             ELSE route_tree_blocks(
                    [drawn EXCEPT !.number_of_trees = st.number_of_trees - 1],
                    cx, cy, get_blocks(highest_block.absolute_position), 1)

\* place_trees, one iteration of `for _ in 0..100` with number_of_trees > 0
tree_attempt(st, sl, cx, cy) ==
    IF attempt_panics(st, sl, cx, cy)
    THEN [st EXCEPT !.panicked = TRUE, !.rng = st.rng + 2]
    ELSE LET block_column == st.blocks[attempt_column(sl, cx, cy, st.rng) + 1]
             highest_block == block_column[Len(block_column)]
             drawn == [st EXCEPT !.rng = st.rng + 2]
         IN  IF highest_block.block_type \in {"Water", "Leaf"}
             THEN drawn
             ELSE route_tree_blocks(
                    [drawn EXCEPT !.number_of_trees = st.number_of_trees - 1],
                    cx, cy, get_blocks(highest_block.absolute_position), 1)

\* place_trees, the routing loop: add_block takes the write guard of the grid
\* for each block of this chunk, and drops it when it returns
RECURSIVE routing_guards(_, _, _, _)
routing_guards(tree_blocks, cx, cy, i) ==
    IF i > Len(tree_blocks) THEN << >>
    ELSE (IF get_chunk_coords(tree_blocks[i]) = << cx, cy >>
          THEN << "write", "drop_write" >>
          ELSE << >>)
             \o routing_guards(tree_blocks, cx, cy, i + 1)

\* attempt_guards with blocks_read declared in the body of the loop, outside
\* the inner block: the guard lives until the iteration ends
attempt_guards_HeldThroughRouting(st, sl, cx, cy) ==
    IF attempt_panics(st, sl, cx, cy)
    THEN << "read", "drop_read" >>
    ELSE LET block_column == st.blocks[attempt_column(sl, cx, cy, st.rng) + 1]
             highest_block == block_column[Len(block_column)]
         IN  IF highest_block.block_type \in {"Water", "Leaf"}
             THEN << "read", "drop_read" >>
             ELSE << "read" >>
                     \o routing_guards(get_blocks(highest_block.absolute_position), cx, cy, 1)
                     \o << "drop_read" >>

\* place_trees, one iteration: what it does with the guards of the grid's
\* lock, in order. blocks_read is taken inside the inner block and dropped
\* where that block ends (at `continue`, at a panic, or at its last line),
\* before the routing loop runs
attempt_guards(st, sl, cx, cy) ==
    IF attempt_panics(st, sl, cx, cy)
    THEN << "read", "drop_read" >>
    ELSE LET block_column == st.blocks[attempt_column(sl, cx, cy, st.rng) + 1]
             highest_block == block_column[Len(block_column)]
         IN  IF highest_block.block_type \in {"Water", "Leaf"}
             THEN << "read", "drop_read" >>
             ELSE << "read", "drop_read" >>
                     \o routing_guards(get_blocks(highest_block.absolute_position), cx, cy, 1)

\* the loop written as `for _ in 0..=100`
MAX_ATTEMPTS_Inclusive == 100 + 1

\* number of iterations of place_trees' loop
MAX_ATTEMPTS == 100

\* place_trees from its t-th iteration on
RECURSIVE place_trees_from(_, _, _, _, _)
place_trees_from(st, sl, cx, cy, t) ==
    IF t >= MAX_ATTEMPTS \/ st.number_of_trees = 0 \/ st.panicked THEN st
    ELSE place_trees_from(tree_attempt(st, sl, cx, cy), sl, cx, cy, t + 1)

\* place_trees
place_trees(bl, out, md, sl, cx, cy) ==
    place_trees_from(TreeState(bl, out, md, initial_number_of_trees(sl, cx, cy), 1, FALSE),
                     sl, cx, cy, 0)

\* Chunk::new: a chunk with no outside blocks and modified unset, whose grid
\* is made by create_blocks_data and then handed to place_trees
generate(sl, cx, cy, nz) ==
    place_trees(create_blocks_data(sl, cx, cy, nz), << >>, FALSE, sl, cx, cy)

\* ------------------------------------------------------------ the inputs
\* chunk coordinates that are generated
ChunkCoords == { << 0, 0 >>, << -1, 1 >>, << 2, -1 >> }

\* the noise fields a chunk is generated from
NoiseFields == { 0, 1 }

\* the generated chunks whose store is then called: chunks with trees
StoreChunks == { << 0, 0 >>, << 2, -1 >> }
StoreNoise == { 0 }

\* relative positions that callers pass to the chunk store: inside the chunk
\* (present, and above every column), left of it, behind it, right of it,
\* past its last column, between two columns, below the world
Positions ==
    { << F(0), F(0), F(0) >>,
      << F(1), F(MaxY), F(2) >>,
      << F(CHUNK_SIZE - 1), F(WATER_HEIGHT_LEVEL), F(CHUNK_SIZE - 1) >>,
      << F(-1), F(0), F(1) >>,
      << F(1), F(0), F(-1) >>,
      << F(0), F(1), F(CHUNK_SIZE) >>,
      << F(CHUNK_SIZE), F(0), F(0) >>,
      << F(0) + 1, F(2), F(0) >>,
      << F(1), F(-1), F(2) >> }

\* a position with integer components that passes both boundary predicates
IsInteger(f) == Floor(f) = f
ValidPosition(position) ==
    /\ \A i \in 1..3 : IsInteger(position[i])
    /\ ~is_outside_chunk(position)
    /\ ~is_outside_bounds(position)

\* the record of a call
Call(op, position, modify_status, ret) ==
    [op |-> op, position |-> position, modify_status |-> modify_status, ret |-> ret]

\* ------------------------------------------- the chunk store after Chunk::new
StoreInit ==
    /\ salt \in 0..MaxSalt
    /\ noise \in StoreNoise
    /\ \E c \in StoreChunks : chunk_x = c[1] /\ chunk_y = c[2]
    /\ LET g == generate(salt, chunk_x, chunk_y, noise)
       IN  /\ blocks = g.blocks
           /\ outside_blocks = g.outside_blocks
           /\ panicked = g.panicked
           /\ number_of_trees = g.number_of_trees
           /\ rng = g.rng
           /\ modified = g.modified
    /\ ops = 0
    /\ last = Call("new", << 0, 0, 0 >>, FALSE, None)
    /\ pc = "done"
    /\ col = size
    /\ tries = 0
    /\ run = 1
    /\ first = << >>
    /\ contract_kept = TRUE
    /\ lockst = << >>
    /\ tpc = << >>

\* Chunk::add_block(block, modify_status)
add_block(position, block_type, modify_status) ==
    LET block == Block_new(position, << chunk_x, chunk_y >>, block_type)
    IN  /\ ~panicked
        /\ pc = "done"
        /\ ops < MaxOps
        /\ ops' = ops + 1
        /\ last' = Call("add_block", position, modify_status, block)
        /\ IF add_block_panics(blocks, block)
           THEN /\ panicked' = TRUE
                /\ UNCHANGED << blocks, modified >>
           ELSE /\ blocks' = add_block_grid(blocks, block)
                /\ modified' = add_block_modified(modified, modify_status)
                /\ UNCHANGED panicked
        /\ contract_kept' = (contract_kept /\ ValidPosition(position))
        /\ UNCHANGED << chunk_x, chunk_y, outside_blocks, noise, salt, pc, col, tries,
                        number_of_trees, rng, run, first, lockst, tpc >>

\* Chunk::remove_block(block_r_position)
remove_block(position) ==
    /\ ~panicked
    /\ pc = "done"
    /\ ops < MaxOps
    /\ ops' = ops + 1
    /\ last' = Call("remove_block", position, FALSE, None)
    /\ IF remove_block_panics(blocks, position)
       THEN /\ panicked' = TRUE
            /\ UNCHANGED << blocks, modified >>
       ELSE /\ blocks' = remove_block_grid(blocks, position)
            /\ modified' = TRUE
            /\ UNCHANGED panicked
    /\ UNCHANGED << chunk_x, chunk_y, outside_blocks, noise, salt, pc, col, tries,
                    number_of_trees, rng, run, first, contract_kept, lockst, tpc >>

\* a lookup call: it changes nothing of the chunk and returns ret
Lookup(op, position, ret) ==
    /\ ~panicked
    /\ pc = "done"
    /\ ops < MaxOps
    /\ ops' = ops + 1
    /\ last' = Call(op, position, FALSE, ret)
    /\ UNCHANGED << chunk_x, chunk_y, blocks, outside_blocks, modified, panicked, noise,
                    salt, pc, col, tries, number_of_trees, rng, run, first,
                    contract_kept, lockst, tpc >>

\* Chunk::get_block_at_relative(position), called
GetBlockAtRelative(position) ==
    Lookup("get_block_at_relative", position, get_block_at_relative(blocks, position))

\* Chunk::exists_block_at(position), called
ExistsBlockAt(position) ==
    Lookup("exists_block_at", position, exists_block_at(blocks, position))

\* Chunk::block_type_at(position), called
BlockTypeAt(position) ==
    Lookup("block_type_at", position, block_type_at(blocks, position))

\* the block types callers insert
InsertedTypes == { "Stone" }

\* the positions whose lookups are called
LookupPositions ==
    { << F(0), F(0), F(0) >>,
      << F(1), F(MaxY), F(2) >>,
      << F(-1), F(0), F(1) >>,
      << F(0) + 1, F(2), F(0) >> }

Next ==
    \/ \E p \in Positions, t \in InsertedTypes, m \in BOOLEAN : add_block(p, t, m)
    \/ \E p \in Positions : remove_block(p)
    \/ \E p \in LookupPositions : GetBlockAtRelative(p)
    \/ \E p \in LookupPositions : ExistsBlockAt(p)
    \/ \E p \in LookupPositions : BlockTypeAt(p)

Spec == StoreInit /\ [][Next]_vars

\* ======================================================= chunk store claims
\* the column indices and, per column, the vertical indices of a grid
Columns(bl) == 0..(Len(bl) - 1)
Heights(bl, idx) == 0..(Len(bl[idx + 1]) - 1)

\* the block stored at (idx, yi) carries the position of its slot
SlotHasOwnPosition(bl, idx, yi) ==
    Slot(bl, idx, yi) # None =>
        Slot(bl, idx, yi).position = << F(idx \div CHUNK_SIZE), F(yi), F(idx % CHUNK_SIZE) >>

PositionsAgree(bl) ==
    \A idx \in Columns(bl) : \A yi \in Heights(bl, idx) : SlotHasOwnPosition(bl, idx, yi)

\* the step is a call of op (the call is recorded in last')
Called(op) == ops' = ops + 1 /\ last'.op = op

\* every slot other than (idx, yi) that existed before the step is unchanged
OtherSlotsUnchanged(idx, yi) ==
    \A i \in Columns(blocks) : \A h \in Heights(blocks, i) :
        (i # idx \/ h # yi) =>
            /\ h < Len(blocks'[i + 1])
            /\ Slot(blocks', i, h) = Slot(blocks, i, h)

\* C2 as stated: after any sequence of create_blocks_data, place_trees,
\* add_block and remove_block, every block stored in column lx*CHUNK_SIZE+lz
\* at vertical index y has position (lx, y, lz).
C2_AnySequence == PositionsAgree(blocks)

\* C2 amended: after create_blocks_data, place_trees and any sequence of
\* remove_block and of add_block of blocks whose position has integer
\* components and passes is_outside_chunk and is_outside_bounds, every block
\* stored in column lx*CHUNK_SIZE+lz at vertical index y has position
\* (lx, y, lz).
C2_PositionsAgree == contract_kept => PositionsAgree(blocks)

\* C2 witness: a valid add_block has grown a column of a grid with trees
C2_Witness ==
    /\ last.op = "add_block"
    /\ contract_kept
    /\ ops = MaxOps
    /\ ~panicked
    /\ AsUsize(last.position[2]) = MaxY
    /\ \E idx \in Columns(blocks) : \E yi \in Heights(blocks, idx) :
          Slot(blocks, idx, yi).block_type = "Leaf"

\* C3: for a block with a valid integer position add_block does not fail, a
\* following get_block_at_relative of that position returns the block, and
\* every other slot that existed is unchanged.
C3_AddThenGet ==
    [][(Called("add_block") /\ ValidPosition(last'.position)) =>
         /\ ~panicked'
         /\ get_block_at_relative(blocks', last'.position) = last'.ret
         /\ last'.ret # None
         /\ OtherSlotsUnchanged(ColumnIndex(last'.position), AsUsize(last'.position[2]))]_vars

\* C3 witness: a valid add_block has replaced a block inside a column
C3_Witness ==
    /\ last.op = "add_block"
    /\ ValidPosition(last.position)
    /\ ~panicked
    /\ AsUsize(last.position[2]) + 1 < Len(blocks[ColumnIndex(last.position) + 1])
    /\ get_block_at_relative(blocks, last.position).block_type = "Stone"

\* the column index local_x * chunk_size + local_z lies outside [0, chunk_size^2)
IndexOutside(position) ==
    \/ position[1] * CHUNK_SIZE + position[3] < F(0)
    \/ position[1] * CHUNK_SIZE + position[3] >= F(size)

\* C4 as stated: add_block panics for every block whose column index is
\* outside [0, chunk_size^2), negative values included, and then stores the
\* block in no column.
C4_PanicsOutside ==
    [][(Called("add_block") /\ IndexOutside(last'.position)) =>
         (panicked' /\ blocks' = blocks)]_vars

\* C5 as stated: for a position inside the horizontal bounds with height >= 0
\* remove_block does not fail, clears the slot if a block is there, leaves the
\* grid as it is when the height is beyond the column or the slot is empty,
\* keeps every other slot and the column's length, and sets modified.
C5_RemoveTotal ==
    [][(Called("remove_block")
          /\ ~is_outside_chunk(last'.position) /\ ~is_outside_bounds(last'.position)) =>
         LET idx == ColumnIndex(last'.position)
             yi == AsUsize(last'.position[2])
         IN  /\ ~panicked'
             /\ modified'
             /\ Len(blocks'[idx + 1]) = Len(blocks[idx + 1])
             /\ yi < Len(blocks[idx + 1]) => Slot(blocks', idx, yi) = None
             /\ OtherSlotsUnchanged(idx, yi)]_vars

\* C6: a column is as long as 1 + the largest height ever inserted in it.
\* Every generated column ends in a block that sits at its own height; an
\* add_block beyond the length grows the column to y + 1 and pads with empty
\* slots, one within the length keeps the length, and no call shortens a
\* column or changes the length of another one.
C6_ColumnLength ==
    /\ \A idx \in Columns(blocks) :
          /\ Len(blocks[idx + 1]) > 0
          /\ Slot(blocks, idx, Len(blocks[idx + 1]) - 1) # None
          /\ AsUsize(Slot(blocks, idx, Len(blocks[idx + 1]) - 1).position[2])
                = Len(blocks[idx + 1]) - 1
    /\ [][/\ \A i \in Columns(blocks) : Len(blocks'[i + 1]) >= Len(blocks[i + 1])
          /\ (Called("add_block") /\ ~panicked') =>
                LET idx == ColumnIndex(last'.position)
                    yi == AsUsize(last'.position[2])
                    old == Len(blocks[idx + 1])
                IN  /\ Len(blocks'[idx + 1]) = Max(old, yi + 1)
                    /\ \A h \in old..(yi - 1) : Slot(blocks', idx, h) = None
                    /\ Slot(blocks', idx, yi) = last'.ret
                    /\ \A i \in Columns(blocks) :
                          i # idx => Len(blocks'[i + 1]) = Len(blocks[i + 1])
          /\ ~Called("add_block") =>
                \A i \in Columns(blocks) : Len(blocks'[i + 1]) = Len(blocks[i + 1])]_vars

\* C6 witness: an add_block has grown a column by more than one slot
C6_Witness ==
    /\ last.op = "add_block"
    /\ ~panicked
    /\ LET idx == ColumnIndex(last.position)
           yi == AsUsize(last.position[2])
       IN  /\ Len(blocks[idx + 1]) = yi + 1
           /\ yi > 0
           /\ Slot(blocks, idx, yi - 1) = None

\* C7 as stated: for every position, negative and out-of-chunk components
\* included, exists_block_at is true exactly when get_block_at_relative
\* returns a block, and block_type_at returns the type of that block.
C7_SameLookup ==
    \A p \in Positions :
        /\ exists_block_at(blocks, p) <=> (get_block_at_relative(blocks, p) # None)
        /\ block_type_at(blocks, p) = get_block_at_relative(blocks, p).block_type

GenInit ==
    /\ salt \in 0..MaxSalt
    /\ noise \in NoiseFields
    /\ \E c \in ChunkCoords : chunk_x = c[1] /\ chunk_y = c[2]
    /\ blocks = [i \in 1..size |-> << >>]
    /\ outside_blocks = << >>
    /\ modified = FALSE
    /\ panicked = FALSE
    /\ ops = 0
    /\ last = Call("new", << 0, 0, 0 >>, FALSE, None)
    /\ pc = "create"
    /\ col = 0
    /\ tries = 0
    /\ number_of_trees = 0
    /\ rng = 0
    /\ run = 1
    /\ first = << >>
    /\ contract_kept = TRUE
    /\ lockst = << >>
    /\ tpc = << >>

\* create_blocks_data, one iteration of the loop over x and z
PopulateColumn ==
    /\ pc = "create"
    /\ col < size
    /\ blocks' = [blocks EXCEPT ![col + 1] =
                    create_column(salt, chunk_x, chunk_y, col \div CHUNK_SIZE,
                                  col % CHUNK_SIZE, noise)]
    /\ col' = col + 1
    /\ UNCHANGED << chunk_x, chunk_y, outside_blocks, modified, panicked, noise, salt,
                    ops, last, pc, tries, number_of_trees, rng, run, first,
                    contract_kept, lockst, tpc >>

\* StartTrees inside the column loop: place_trees runs once a column exists
StartTrees_NoBarrier ==
    /\ pc = "create"
    /\ col >= 1
    /\ pc' = "trees"
    /\ number_of_trees' = initial_number_of_trees(salt, chunk_x, chunk_y)
    /\ rng' = 1
    /\ tries' = 0
    /\ UNCHANGED << chunk_x, chunk_y, blocks, outside_blocks, modified, panicked, noise,
                    salt, ops, last, col, run, first, contract_kept, lockst, tpc >>

\* StartTrees with a generator that is kept between calls and not seeded again
StartTrees_NoReseed ==
    /\ pc = "create"
    /\ col = size
    /\ pc' = "trees"
    /\ number_of_trees' =
          (RngF32(salt, tree_seed(chunk_x, chunk_y), rng) * MAX_TREES_PER_CHUNK)
              \div RNG_DENOM
    /\ rng' = rng + 1
    /\ tries' = 0
    /\ UNCHANGED << chunk_x, chunk_y, blocks, outside_blocks, modified, panicked, noise,
                    salt, ops, last, col, run, first, contract_kept, lockst, tpc >>

\* create_blocks_data has left its loops and returned; Chunk::new stores the
\* grid and calls place_trees, which seeds its generator and draws the
\* number of trees
StartTrees ==
    /\ pc = "create"
    /\ col = size
    /\ pc' = "trees"
    /\ number_of_trees' = initial_number_of_trees(salt, chunk_x, chunk_y)
    /\ rng' = 1
    /\ tries' = 0
    /\ UNCHANGED << chunk_x, chunk_y, blocks, outside_blocks, modified, panicked, noise,
                    salt, ops, last, col, run, first, contract_kept, lockst, tpc >>

\* place_trees, one iteration of `for _ in 0..100` that does not break
TreeAttempt ==
    /\ pc = "trees"
    /\ ~panicked
    /\ tries < MAX_ATTEMPTS
    /\ number_of_trees # 0
    /\ LET st == tree_attempt(TreeState(blocks, outside_blocks, modified,
                                        number_of_trees, rng, panicked),
                              salt, chunk_x, chunk_y)
       IN  /\ blocks' = st.blocks
           /\ outside_blocks' = st.outside_blocks
           /\ modified' = st.modified
           /\ number_of_trees' = st.number_of_trees
           /\ rng' = st.rng
           /\ panicked' = st.panicked
    /\ lockst' = attempt_guards(TreeState(blocks, outside_blocks, modified,
                                          number_of_trees, rng, panicked),
                                salt, chunk_x, chunk_y)
    /\ tries' = tries + 1
    /\ UNCHANGED << chunk_x, chunk_y, noise, salt, ops, last, pc, col, run, first, contract_kept,
                    tpc >>

\* place_trees leaves its loop (break, or the range is used up) and returns
FinishTrees ==
    /\ pc = "trees"
    /\ ~panicked
    /\ tries = MAX_ATTEMPTS \/ number_of_trees = 0
    /\ pc' = "done"
    /\ UNCHANGED << chunk_x, chunk_y, blocks, outside_blocks, modified, panicked, noise,
                    salt, ops, last, col, tries, number_of_trees, rng, run, first, contract_kept,
                    lockst, tpc >>

\* what a generation run has produced: the type in every slot, and the
\* outside blocks in their order
Generated ==
    [types |-> [i \in 1..Len(blocks) |->
                  [h \in 1..Len(blocks[i]) |-> blocks[i][h].block_type]],
     outside_blocks |-> outside_blocks]

\* number of times the same chunk is generated
MaxRuns == 2

\* Chunk::new is called again with the same coordinates and noise data
Regenerate ==
    /\ pc = "done"
    /\ run < MaxRuns
    /\ run' = run + 1
    /\ first' = Generated
    /\ blocks' = [i \in 1..size |-> << >>]
    /\ outside_blocks' = << >>
    /\ modified' = FALSE
    /\ pc' = "create"
    /\ col' = 0
    /\ tries' = 0
    /\ number_of_trees' = 0
    /\ UNCHANGED << chunk_x, chunk_y, panicked, noise, salt, ops, last, rng,
                    contract_kept, lockst, tpc >>

NextGen ==
    \/ PopulateColumn
    \/ StartTrees
    \/ TreeAttempt
    \/ FinishTrees
    \/ Regenerate

SpecGen == GenInit /\ [][NextGen]_vars

\* a block of a tree is in the grid or in outside_blocks
TreeBlockPlaced ==
    \/ outside_blocks # << >>
    \/ \E i \in 1..Len(blocks) : \E h \in 1..Len(blocks[i]) :
          blocks[i][h].block_type \in {"Wood", "Leaf"}

\* every column has been populated by create_blocks_data
AllColumnsPopulated == \A i \in 1..Len(blocks) : Len(blocks[i]) > 0

\* C9: tree placement starts only after block creation has completed for all
\* CHUNK_SIZE*CHUNK_SIZE columns: while a column is unpopulated place_trees
\* has not begun, has read no column top and no tree block is placed.
C9_PhaseBarrier ==
    (pc # "create" \/ tries > 0 \/ TreeBlockPlaced) => (col = size /\ AllColumnsPopulated)

\* C9 witness: a tree has been placed, in the grid and in outside_blocks
C9_Witness ==
    /\ pc = "trees"
    /\ tries > 0
    /\ outside_blocks # << >>
    /\ \E i \in 1..Len(blocks) : \E h \in 1..Len(blocks[i]) :
          blocks[i][h].block_type = "Wood"

\* C10: two runs of create_blocks_data followed by place_trees with the same
\* seed, chunk coordinates and noise data produce the same block type in
\* every slot and the same outside_blocks in the same order (the types of the
\* terrain slots are the results of BlockType::from_position in each run).
C10_Deterministic ==
    (run = MaxRuns /\ pc = "done") => Generated = first

\* C10 witness: the second run has ended and has placed a tree with blocks in
\* the grid and in outside_blocks
C10_Witness ==
    /\ run = MaxRuns
    /\ pc = "done"
    /\ outside_blocks # << >>
    /\ \E i \in 1..Len(blocks) : \E h \in 1..Len(blocks[i]) :
          blocks[i][h].block_type = "Wood"

\* ===================================== threads on one chunk's voxel grid
Threads == 1..NThreads

\* the calls that take the grid's RwLock
WriterOps == { "add_block", "remove_block", "create_blocks_data" }
ReaderOps == { "get_block_at_relative", "exists_block_at", "from_vertex_position" }

\* what the body of a call does to the grid while it holds the guard:
\* add_block, remove_block and the column loop of create_blocks_data assign
\* to columns, the lookups and the AO probe only read them
Mutates(op) == op \in WriterOps

\* LockMethod with add_block taking the read guard
LockMethod_AddReads(op) ==
    IF op \in { "remove_block", "create_blocks_data" } THEN "write" ELSE "read"

\* the RwLock method each call uses on the grid: add_block,
\* remove_block and create_blocks_data call blocks.write(); get_block_at_relative,
\* exists_block_at and from_vertex_position call blocks.read()
LockMethod(op) ==
    CASE op = "add_block" -> "write"
      [] op = "remove_block" -> "write"
      [] op = "create_blocks_data" -> "write"
      [] op = "get_block_at_relative" -> "read"
      [] op = "exists_block_at" -> "read"
      [] op = "from_vertex_position" -> "read"

\* ao::from_vertex_position, one probe with the guard held: the cell counts
\* as occupied when it holds a block that is not Water
probe_occupied(bl, position) ==
    LET ycol == bl[ColumnIndex(position) + 1]
        yi == AsUsize(position[2])
    IN  /\ yi < Len(ycol)
        /\ ycol[yi + 1] # None
        /\ ycol[yi + 1].block_type # "Water"

\* the cell the threads work on
LockPosition == << F(0), F(0), F(0) >>

LockInit ==
    /\ salt = 0
    /\ noise = 0
    /\ chunk_x = 0
    /\ chunk_y = 0
    /\ col = size - LockUnpopulated
    /\ blocks = create_blocks_data_upto(salt, chunk_x, chunk_y, noise, col)
    /\ outside_blocks = << >>
    /\ modified = FALSE
    /\ panicked = FALSE
    /\ ops = 0
    /\ last = Call("new", << 0, 0, 0 >>, FALSE, None)
    /\ pc = "create"
    /\ tries = 0
    /\ number_of_trees = 0
    /\ rng = 0
    /\ run = 1
    /\ first = << >>
    /\ contract_kept = TRUE
    /\ lockst = [writer |-> 0, readers |-> {}]
    /\ tpc = [t \in Threads |-> "idle"]

\* RwLock::write returns its guard: no other guard of the lock is alive
AcquireWrite(t) ==
    /\ lockst.writer = 0
    /\ lockst.readers = {}
    /\ lockst' = [lockst EXCEPT !.writer = t]

\* RwLock::read returns its guard: no write guard of the lock is alive
AcquireRead(t) ==
    /\ lockst.writer = 0
    /\ lockst' = [lockst EXCEPT !.readers = lockst.readers \cup {t}]

\* the guard of thread t is dropped
ReleaseGuard(t) ==
    lockst' = [writer |-> IF lockst.writer = t THEN 0 ELSE lockst.writer,
               readers |-> lockst.readers \ {t}]

\* thread t calls op and gets the guard of the grid's lock
Acquire(t, op) ==
    /\ tpc[t] = "idle"
    /\ op = "create_blocks_data" => col < size
    /\ IF LockMethod(op) = "write" THEN AcquireWrite(t) ELSE AcquireRead(t)
    /\ tpc' = [tpc EXCEPT ![t] = op]
    /\ UNCHANGED << chunk_x, chunk_y, blocks, outside_blocks, modified, panicked, noise,
                    salt, ops, last, pc, col, tries, number_of_trees, rng, run, first,
                    contract_kept >>

\* thread t runs the body of its call under the guard and returns
Finish(t) ==
    /\ tpc[t] # "idle"
    /\ tpc' = [tpc EXCEPT ![t] = "idle"]
    /\ ReleaseGuard(t)
    /\ CASE tpc[t] = "add_block" ->
              /\ blocks' = add_block_grid(blocks,
                              Block_new(LockPosition, << chunk_x, chunk_y >>, "Stone"))
              /\ modified' = add_block_modified(modified, TRUE)
              /\ UNCHANGED << col, last >>
         [] tpc[t] = "remove_block" ->
              /\ blocks' = remove_block_grid(blocks, LockPosition)
              /\ modified' = TRUE
              /\ UNCHANGED << col, last >>
         [] tpc[t] = "create_blocks_data" ->
              /\ col < size
              /\ blocks' = [blocks EXCEPT ![col + 1] =
                              create_column(salt, chunk_x, chunk_y, col \div CHUNK_SIZE,
                                            col % CHUNK_SIZE, noise)]
              /\ col' = col + 1
              /\ UNCHANGED << modified, last >>
         [] tpc[t] = "get_block_at_relative" ->
              /\ last' = Call(tpc[t], LockPosition, FALSE,
                              get_block_at_relative(blocks, LockPosition))
              /\ UNCHANGED << blocks, modified, col >>
         [] tpc[t] = "exists_block_at" ->
              /\ last' = Call(tpc[t], LockPosition, FALSE,
                              exists_block_at(blocks, LockPosition))
              /\ UNCHANGED << blocks, modified, col >>
         [] tpc[t] = "from_vertex_position" ->
              /\ last' = Call(tpc[t], LockPosition, FALSE,
                              probe_occupied(blocks, LockPosition))
              /\ UNCHANGED << blocks, modified, col >>
    /\ UNCHANGED << chunk_x, chunk_y, outside_blocks, panicked, noise, salt, ops, pc,
                    tries, number_of_trees, rng, run, first, contract_kept >>

NextLock ==
    \/ \E t \in Threads, op \in WriterOps \cup ReaderOps : Acquire(t, op)
    \/ \E t \in Threads : Finish(t)

SpecLock == LockInit /\ [][NextLock]_vars

\* the threads whose call is inside its body, and those that assign there
Accessing == { t \in Threads : tpc[t] # "idle" }
WriteAccessing == { t \in Accessing : Mutates(tpc[t]) }

\* C1: under any interleaving of writers (add_block, remove_block, column
\* population) and readers (get_block_at_relative, exists_block_at, AO
\* probes) on one grid, two writers, or a writer and a reader, never access
\* the grid at the same time (readers may: see the witness).
C1_ReadersWriter ==
    \A t \in WriteAccessing : Accessing = {t}

\* C1 witness: every thread reads the grid at the same time, with all three
\* kinds of reader
C1_Witness ==
    /\ Accessing = Threads
    /\ WriteAccessing = {}
    /\ ReaderOps \subseteq { tpc[t] : t \in Threads }

\* ================================================= effects.rs: vertex AO
\* `b as u8`
BoolAsU8(b) == IF b THEN 1 ELSE 0

\* calc_vertex_ao with the test of the two sides left out
calc_vertex_ao_NoShortcut(side1, side2, up) ==
    3 - (BoolAsU8(side1) + BoolAsU8(side2) + BoolAsU8(up))

\* calc_vertex_ao(side1, side2, up): 0 when both sides are occupied, else 3
\* minus the number of occupied neighbours
calc_vertex_ao(side1, side2, up) ==
    IF side1 /\ side2
    THEN 0
    ELSE 3 - (BoolAsU8(side1) + BoolAsU8(side2) + BoolAsU8(up))

\* a quotient of two f32 values that fixed point cannot hold is the pair
\* << numerator, denominator >>
RatSub(a, b) == << a[1] * b[2] - b[1] * a[2], a[2] * b[2] >>
RatEq(a, b) == a[1] * b[2] = b[1] * a[2]

\* convert_ao_u8_to_f32(ao): 1.0 - (ao as f32 / 3.0)
convert_ao_u8_to_f32(ao) == RatSub(<< 1, 1 >>, << ao, 3 >>)

\* the three cells probed around a vertex: side1, side2, corner
probe_offsets == << << 1, 1, 0 >>, << 0, 1, 1 >>, << 1, 1, 1 >> >>

\* blocks_positions.iter().find_map(..): the index of the first entry at or
\* after i whose chunk coordinate is chunk, 0 when there is none
RECURSIVE find_chunk(_, _, _)
find_chunk(blocks_positions, chunk, i) ==
    IF i > Len(blocks_positions) THEN 0
    ELSE IF blocks_positions[i][1] = chunk THEN i
    ELSE find_chunk(blocks_positions, chunk, i + 1)

\* the probe of one cell that counts every block, Water included
probe_AnyBlock(blocks_positions, p) ==
    LET chunk == get_chunk_from_position_absolute(p)
        position == relative_from_absolute(p)
        i == find_chunk(blocks_positions, chunk, 1)
        cell == [chunk |-> chunk, position |-> position]
    IN  IF i = 0 THEN [val |-> FALSE, panics |-> FALSE, grid |-> 0, cell |-> cell]
        ELSE IF ColumnIndex(position) >= Len(blocks_positions[i][2])
        THEN [val |-> FALSE, panics |-> TRUE, grid |-> i, cell |-> cell]
        ELSE [val |-> get_block_at_relative(blocks_positions[i][2], position) # None,
              panics |-> FALSE, grid |-> i, cell |-> cell]

\* one iteration of the loop of from_vertex_position, for the cell at the
\* absolute position p: the grid of p's chunk is looked up in the list, its
\* column is indexed directly and the slot is read with Vec::get; grid is the
\* list entry whose lock the iteration reads (0: none) and cell the cell it
\* looks at
probe(blocks_positions, p) ==
    LET chunk == get_chunk_from_position_absolute(p)
        position == relative_from_absolute(p)
        i == find_chunk(blocks_positions, chunk, 1)
        cell == [chunk |-> chunk, position |-> position]
    IN  IF i = 0 THEN [val |-> FALSE, panics |-> FALSE, grid |-> 0, cell |-> cell]
        ELSE IF ColumnIndex(position) >= Len(blocks_positions[i][2])
        THEN [val |-> FALSE, panics |-> TRUE, grid |-> i, cell |-> cell]
        ELSE [val |-> probe_occupied(blocks_positions[i][2], position), panics |-> FALSE,
              grid |-> i, cell |-> cell]

\* the absolute position of probe k of a vertex
probe_position(vertex_position, k) ==
    << vertex_position[1] + F(probe_offsets[k][1]),
       vertex_position[2] + F(probe_offsets[k][2]),
       vertex_position[3] + F(probe_offsets[k][3]) >>

\* ao::from_vertex_position: the three flags, the level computed from them,
\* and whether the call panicked
from_vertex_position(vertex_position, blocks_positions) ==
    LET probes == [k \in 1..3 |-> probe(blocks_positions, probe_position(vertex_position, k))]
    IN  [has |-> [k \in 1..3 |-> probes[k].val],
         probes |-> probes,
         panics |-> \E k \in 1..3 : probes[k].panics,
         ao |-> calc_vertex_ao(probes[1].val, probes[2].val, probes[3].val)]

\* ============================================ blocks/block.rs: face meshes
\* CUBE_VERTEX: three coordinates for each of the eight corners of the cube
CUBE_VERTEX ==
    << -HALF, -HALF, -HALF,
       -HALF, HALF, -HALF,
       HALF, HALF, -HALF,
       HALF, -HALF, -HALF,
       -HALF, -HALF, HALF,
       -HALF, HALF, HALF,
       HALF, HALF, HALF,
       HALF, -HALF, HALF >>

FaceDirections == {"Front", "Back", "Left", "Right", "Top", "Bottom"}

\* FaceDirections::get_normal_vector
get_normal_vector(dir) ==
    CASE dir = "Back" -> << F(0), F(0), F(1) >>
      [] dir = "Bottom" -> << F(0), F(-1), F(0) >>
      [] dir = "Top" -> << F(0), F(1), F(0) >>
      [] dir = "Front" -> << F(0), F(0), F(-1) >>
      [] dir = "Left" -> << F(-1), F(0), F(0) >>
      [] dir = "Right" -> << F(1), F(0), F(0) >>

\* FaceDirections::get_indices: the corners of the two triangles of a face
get_indices(dir) ==
    CASE dir = "Back" -> << 7, 6, 5, 7, 5, 4 >>
      [] dir = "Front" -> << 0, 1, 2, 0, 2, 3 >>
      [] dir = "Left" -> << 4, 5, 1, 4, 1, 0 >>
      [] dir = "Right" -> << 3, 2, 6, 3, 6, 7 >>
      [] dir = "Top" -> << 1, 5, 6, 1, 6, 2 >>
      [] dir = "Bottom" -> << 4, 0, 3, 4, 3, 7 >>

\* Vec::contains
Contains(seq, e) == \E k \in 1..Len(seq) : seq[k] = e

\* the first loop of create_face_data without the test of contains
RECURSIVE unique_indices_NoDedup(_, _, _)
unique_indices_NoDedup(indices, i, unique) ==
    IF i > Len(indices) THEN unique
    ELSE unique_indices_NoDedup(indices, i + 1, Append(unique, indices[i]))

\* the first loop of create_face_data, from entry i on: an index is pushed
\* unless the list contains it already
RECURSIVE unique_indices(_, _, _)
unique_indices(indices, i, unique) ==
    IF i > Len(indices) THEN unique
    ELSE IF Contains(unique, indices[i])
    THEN unique_indices(indices, i + 1, unique)
    ELSE unique_indices(indices, i + 1, Append(unique, indices[i]))

\* unique_indices.iter().enumerate().find_map(..): the 0-based place of ind
\* at or after place k
RECURSIVE index_of(_, _, _)
index_of(unique, ind, k) ==
    IF unique[k + 1] = ind THEN k ELSE index_of(unique, ind, k + 1)

\* create_face_data(dir, block, blocks): the vertices (without texture
\* coordinates), the index buffer, and for each vertex the probes that
\* from_vertex_position makes while block_read is held
create_face_data(dir, block, blocks_positions) ==
    LET indices == get_indices(dir)
        unique == unique_indices(indices, 1, << >>)
        indices_map == [i \in 1..6 |-> index_of(unique, indices[i], 0)]
        corner(index, c) == CUBE_VERTEX[index * 3 + c]
        vertex_position(index) ==
            << corner(index, 1) + block.absolute_position[1],
               corner(index, 2) + block.absolute_position[2],
               corner(index, 3) + block.absolute_position[3] >>
        ao(index) == from_vertex_position(vertex_position(index), blocks_positions)
    IN  [vertex_data |->
            [i \in 1..Len(unique) |->
                [position |-> << corner(unique[i], 1) + block.position[1],
                                 corner(unique[i], 2) + block.position[2],
                                 corner(unique[i], 3) + block.position[3] >>,
                 ao |-> convert_ao_u8_to_f32(ao(unique[i]).ao),
                 normal |-> get_normal_vector(dir)]],
         indices |-> indices_map,
         probes |-> [i \in 1..Len(unique) |-> ao(unique[i]).probes],
         panics |-> \E i \in 1..Len(unique) : ao(unique[i]).panics]

\* ================================================ chunk.rs: is_visible
\* glam::Vec3 arithmetic
VecAdd(a, b) == << a[1] + b[1], a[2] + b[2], a[3] + b[3] >>
VecSub(a, b) == << a[1] - b[1], a[2] - b[2], a[3] - b[3] >>
VecScale(k, a) == << k * a[1], k * a[2], k * a[3] >>
VecDot(a, b) == a[1] * b[1] + a[2] * b[2] + a[3] * b[3]
VecCross(a, b) ==
    << a[2] * b[3] - a[3] * b[2], a[3] * b[1] - a[1] * b[3], a[1] * b[2] - a[2] * b[1] >>

\* a plane: a point on it and its normal. A normal made by Vec3::normalize
\* keeps the direction of its argument (the length plays no part in the sign
\* of a distance); the zero vector normalizes to NaN
Plane(point, normal) == [point |-> point, normal |-> normal, nan |-> FALSE]
PlaneNormalized(point, v) == [point |-> point, normal |-> v, nan |-> v = << 0, 0, 0 >>]

\* the comparison of is_visible with > in place of >=
on_visible_side_Strict(plane, point) ==
    /\ ~plane.nan
    /\ VecDot(VecSub(point, plane.point), plane.normal) > 0

\* p.signed_plane_dist(point) >= 0.0: the sign of (point - p.point) . normal;
\* a NaN distance compares false
on_visible_side(plane, point) ==
    /\ ~plane.nan
    /\ VecDot(VecSub(point, plane.point), plane.normal) >= 0

\* is_visible: the four corner points of chunk (cx, cy), taken at y = 0
chunk_points(cx, cy) ==
    << << F(cx * CHUNK_SIZE), F(0), F(cy * CHUNK_SIZE) >>,
       << F((cx + 1) * CHUNK_SIZE), F(0), F(cy * CHUNK_SIZE) >>,
       << F(cx * CHUNK_SIZE), F(0), F((cy + 1) * CHUNK_SIZE) >>,
       << F((cx + 1) * CHUNK_SIZE), F(0), F((cy + 1) * CHUNK_SIZE) >> >>

\* is_visible: the planes far, near, left, right of a camera with the given
\* eye, forward and right directions (whole unit vectors), far and near
\* distances and half width of the far side
camera_planes(cam) ==
    LET front_mult_far == VecScale(cam.zfar, cam.forward)
        up == << 0, 1, 0 >>
    IN  << Plane(VecAdd(cam.eye, front_mult_far), VecScale(-1, cam.forward)),
           Plane(VecAdd(cam.eye, VecScale(cam.znear, cam.forward)), cam.forward),
           PlaneNormalized(cam.eye,
               VecCross(VecSub(cam.eye,
                               VecSub(front_mult_far, VecScale(cam.halfhside, cam.right))),
                        up)),
           PlaneNormalized(cam.eye,
               VecCross(up,
                        VecSub(cam.eye,
                               VecAdd(front_mult_far, VecScale(cam.halfhside, cam.right))))) >>

\* Chunk::is_visible
is_visible(cx, cy, cam) ==
    \A p \in 1..4 :
        \E c \in 1..4 : on_visible_side(camera_planes(cam)[p], chunk_points(cx, cy)[c])

\* ============================ the conversions and generators as functions
\* number of chunks on each side of the origin that absolute positions cover
AbsChunks == 2

\* absolute x or z coordinates: every representable value in the range
AbsCoords == (-(AbsChunks * CHUNK_SIZE * SCALE))..(AbsChunks * CHUNK_SIZE * SCALE)

\* absolute heights: below the world, at its floor, fractional, above it
AbsHeights == { -(F(2)) - 1, F(-1), F(0), 1, F(3) }

\* the other horizontal coordinate: negative, fractional, past the first chunk
AbsSample == { F(-20), -1, F(17), F(20) }

\* the absolute positions that are converted
AbsPositions ==
    { << x, y, z >> : x \in AbsCoords, y \in AbsHeights, z \in AbsSample }
        \cup { << x, y, z >> : x \in AbsSample, y \in AbsHeights, z \in AbsCoords }

\* nothing of a chunk exists: only functions are called
PureInit ==
    /\ salt \in 0..MaxSalt
    /\ noise = 0
    /\ chunk_x = 0
    /\ chunk_y = 0
    /\ blocks = << >>
    /\ outside_blocks = << >>
    /\ modified = FALSE
    /\ panicked = FALSE
    /\ ops = 0
    /\ last = Call("new", << 0, 0, 0 >>, FALSE, None)
    /\ pc = "pure"
    /\ col = 0
    /\ tries = 0
    /\ number_of_trees = 0
    /\ rng = 0
    /\ run = 1
    /\ first = << >>
    /\ contract_kept = TRUE
    /\ lockst = << >>
    /\ tpc = << >>

\* a function is called with argument arg and returns ret; a call leaves
\* nothing behind, so one call is made from each initial state
Returns(op, arg, ret) ==
    /\ pc = "pure"
    /\ ops = 0
    /\ ops' = ops + 1
    /\ last' = Call(op, arg, FALSE, ret)
    /\ UNCHANGED << chunk_x, chunk_y, blocks, outside_blocks, modified, panicked, noise,
                    salt, pc, col, tries, number_of_trees, rng, run, first,
                    contract_kept, lockst, tpc >>

\* p.relative_from_absolute(), called
RelativeFromAbsolute(p) ==
    Returns("relative_from_absolute", p, relative_from_absolute(p))

\* p.get_chunk_from_position_absolute(), called
ChunkFromPositionAbsolute(p) ==
    Returns("get_chunk_from_position_absolute", p, get_chunk_from_position_absolute(p))

\* Block::new(p.relative_from_absolute(), p.get_chunk_from_position_absolute(), _),
\* the way Tree::get_blocks builds a block from an absolute position
BlockFromAbsolute(p) ==
    Returns("Block_new", p,
            Block_new(relative_from_absolute(p), get_chunk_from_position_absolute(p), "Wood"))

\* the arguments of the classifier: every local x, some local z, and every
\* height from 0 to above the stone band
ClassifierZ == { 0, 1, 3, CHUNK_SIZE - 1 }
ClassifierHeights == 0..(STONE_THRESHOLD[2] + 2)

\* BlockType::from_position(x, y, z), called
FromPosition(x, y, z) ==
    Returns("from_position", << x, y, z >>, from_position(salt, x, y, z))

\* anchors of a tree: integer absolute positions around the borders of the
\* chunks next to the origin, at the floor of the world, above it and below it
AnchorCoords == { F(i) : i \in (-(CHUNK_SIZE + 2))..(CHUNK_SIZE + 2) }
AnchorSample == { F(-1), F(0), F(CHUNK_SIZE - 1) }
AnchorHeights == { F(-3), F(-1), F(0), F(4) }
Anchors ==
    { << x, y, z >> : x \in AnchorCoords, y \in AnchorHeights, z \in AnchorSample }
        \cup { << x, y, z >> : x \in AnchorSample, y \in AnchorHeights, z \in AnchorCoords }

\* Tree::get_blocks(position), called
TreeGetBlocks(a) ==
    Returns("get_blocks", a, get_blocks(a))

\* calc_vertex_ao(side1, side2, up), called
CalcVertexAo(side1, side2, up) ==
    Returns("calc_vertex_ao", << side1, side2, up >>, calc_vertex_ao(side1, side2, up))

\* the AO levels that calc_vertex_ao can hand to the conversion
AoLevels == 0..3

\* convert_ao_u8_to_f32(ao), called
ConvertAo(ao) ==
    Returns("convert_ao_u8_to_f32", ao, convert_ao_u8_to_f32(ao))

\* grids handed to the mesher: a generated chunk with trees, its western
\* neighbour, and a chunk none of whose columns is populated yet
GridOrigin == generate(2, 0, 0, 0).blocks
GridWest == generate(0, -1, 0, 0).blocks
GridUnpopulated == create_blocks_data_upto(0, 0, -1, 0, 0)

\* the lists of (chunk coordinate, grid) pairs: none, the chunk alone, the
\* chunk with two neighbours
ProbeLists ==
    << << >>,
       << << << 0, 0 >>, GridOrigin >> >>,
       << << << -1, 0 >>, GridWest >>, << << 0, 0 >>, GridOrigin >>,
          << << 0, -1 >>, GridUnpopulated >> >> >>

\* vertex coordinates: cube corners (halves) around both borders of the
\* chunk and next to a tree, and whole numbers
ProbeCoords == { F(i) + HALF : i \in { -2, -1, 0, 1, 6, CHUNK_SIZE - 2, CHUNK_SIZE - 1 } }
                   \cup { F(0), F(3) }
ProbeHeights == { F(j) + HALF : j \in (-3)..MaxY } \cup { F(2) }

\* from_vertex_position(vertex, list), called
FromVertexPosition(vertex, l) ==
    Returns("from_vertex_position", << vertex, l >>,
            from_vertex_position(vertex, ProbeLists[l]))

\* the blocks that are meshed: every block of some columns of the generated
\* chunk, at its western border, inside it and under a tree
MeshColumns == { 0, 1, CHUNK_SIZE + 1, 15 * CHUNK_SIZE + 7, 15 * CHUNK_SIZE + 8 }
MeshBlocks ==
    UNION { { Slot(GridOrigin, idx, yi) : yi \in 0..(Len(GridOrigin[idx + 1]) - 1) } :
              idx \in MeshColumns }
        \ { None }

\* dir.create_face_data(block, list), called
CreateFaceData(dir, block, l) ==
    Returns("create_face_data", << dir, block, l >>,
            create_face_data(dir, block, ProbeLists[l]))

\* chunk coordinates whose heights are sampled: around both ends of the
\* noise tile, one tile below the origin, and around the origin
HeightChunks ==
    { -(NOISE_CHUNK_PER_ROW) - 1, -(NOISE_CHUNK_PER_ROW), -(NOISE_CHUNK_PER_ROW) + 1,
      -1, 0, 1,
      NOISE_CHUNK_PER_ROW - 1, NOISE_CHUNK_PER_ROW, NOISE_CHUNK_PER_ROW + 1 }
HeightLocals == { 0, 1, CHUNK_SIZE - 1 }

\* Chunk::get_height_value(cx, cy, x, z, noise_data), called
GetHeightValue(cx, cy, x, z) ==
    Returns("get_height_value", << cx, cy, x, z >>,
            [index |-> sample_index(cx, cy, x, z),
             height |-> get_height_value(cx, cy, x, z, noise)])

\* chunk coordinates whose seed is computed: around the origin and far from
\* it, of both signs
SeedChunks == { -20000, -15000, -14000, -3, -1, 0, 1, 2, 14000, 15000, 20000 }

\* overflow checks are compiled in (debug) or left out (release)
Builds == { "debug", "release" }

\* the first statement of place_trees on chunk (cx, cy), evaluated: a debug
\* build panics on an overflow, a release build goes on with the wrapped value
TreeSeed(cx, cy, build) ==
    LET overflows == tree_seed_overflows(cx, cy)
    IN  Returns("tree_seed", << cx, cy, build >>,
                [overflows |-> overflows,
                 panics |-> build = "debug" /\ (overflows.product \/ overflows.sum),
                 seed |-> tree_seed(cx, cy)])

\* the cameras: eyes next to a chunk border, inside a chunk and at a far
\* corner of the view (where a side plane has no normal), looking along an
\* axis, with the right direction on either hand
CameraEyes ==
    { << x, y, z >> : x \in { F(-1), F(0), F(8), F(32) }, y \in { F(0), F(5) },
                      z \in { F(0), F(8), F(16) } }
CameraDirections ==
    { << f, r >> \in { << 1, 0, 0 >>, << -1, 0, 0 >>, << 0, 0, 1 >>, << 0, 0, -1 >> }
                       \X { << 1, 0, 0 >>, << -1, 0, 0 >>, << 0, 0, 1 >>, << 0, 0, -1 >> } :
        VecDot(f, r) = 0 }
Cameras ==
    { [eye |-> e, forward |-> d[1], right |-> d[2], zfar |-> F(32), znear |-> F(1),
       halfhside |-> h] :
        e \in CameraEyes, d \in CameraDirections, h \in { F(16), F(32) } }

\* the chunks whose visibility is asked
VisibleChunks == (-3)..3

\* chunk.is_visible(player), called
IsVisible(cx, cy, cam) ==
    Returns("is_visible", << cx, cy, cam >>,
            [planes |-> camera_planes(cam), visible |-> is_visible(cx, cy, cam)])

NextPure ==
    \/ ops = 0 /\ \E p \in AbsPositions : RelativeFromAbsolute(p)
    \/ ops = 0 /\ \E p \in AbsPositions : ChunkFromPositionAbsolute(p)
    \/ ops = 0 /\ \E p \in AbsPositions : BlockFromAbsolute(p)
    \/ ops = 0 /\ \E x \in 0..(CHUNK_SIZE - 1), y \in ClassifierHeights, z \in ClassifierZ :
          FromPosition(x, y, z)
    \/ ops = 0 /\ \E a \in Anchors : TreeGetBlocks(a)
    \/ ops = 0 /\ \E side1 \in BOOLEAN, side2 \in BOOLEAN, up \in BOOLEAN :
          CalcVertexAo(side1, side2, up)
    \/ ops = 0 /\ \E ao \in AoLevels : ConvertAo(ao)
    \/ ops = 0 /\ \E x \in ProbeCoords, y \in ProbeHeights, z \in ProbeCoords,
                     l \in 1..Len(ProbeLists) :
          FromVertexPosition(<< x, y, z >>, l)
    \/ ops = 0 /\ \E dir \in FaceDirections, block \in MeshBlocks,
                     l \in 1..Len(ProbeLists) :
          CreateFaceData(dir, block, l)
    \/ ops = 0 /\ \E cx \in HeightChunks, cy \in HeightChunks,
                     x \in HeightLocals, z \in HeightLocals :
          GetHeightValue(cx, cy, x, z)
    \/ ops = 0 /\ \E cx \in SeedChunks, cy \in SeedChunks, build \in Builds :
          TreeSeed(cx, cy, build)
    \/ ops = 0 /\ \E cx \in VisibleChunks, cy \in VisibleChunks, cam \in Cameras :
          IsVisible(cx, cy, cam)

SpecPure == PureInit /\ [][NextPure]_vars

\* the call whose result the state holds
Returned(op) == last.op = op

\* C11 as stated: for every absolute position p, negative and non-integer
\* components included, the absolute position that Block::new reconstructs
\* from p's owning chunk and relative position is (floor(p.x), floor(p.y),
\* floor(p.z)).
C11_RoundTrip ==
    Returned("Block_new") =>
        last.ret.absolute_position
            = << Floor(last.position[1]), Floor(last.position[2]), Floor(last.position[3]) >>

\* C11 amended: the reconstructed absolute position is (floor(p.x),
\* max(floor(p.y), 0), floor(p.z)): x and z round-trip for every position,
\* negative and non-integer included, and the height is raised to the floor
\* of the world.
C11_RoundTripClamped ==
    Returned("Block_new") =>
        last.ret.absolute_position
            = << Floor(last.position[1]), Max(Floor(last.position[2]), F(0)),
                 Floor(last.position[3]) >>

\* C11 witness: a position with negative, non-integer x and negative height
\* has been reconstructed in a chunk left of the origin
C11_Witness ==
    /\ Returned("Block_new")
    /\ last.position[1] < F(-CHUNK_SIZE)
    /\ ~IsInteger(last.position[1])
    /\ last.position[2] < F(0)
    /\ last.ret.absolute_position[1] < last.position[1]
    /\ last.ret.absolute_position[2] = F(0)

\* c is floor(a / CHUNK_SIZE): the multiple of the chunk size at or below a
IsChunkOf(c, a) == F(c * CHUNK_SIZE) <= a /\ a < F((c + 1) * CHUNK_SIZE)

\* C12: get_chunk_from_position_absolute returns (floor(x / CHUNK_SIZE),
\* floor(z / CHUNK_SIZE)), rounding negative coordinates toward minus
\* infinity, whatever y is; (17,0,20) -> (1,1), (32,0,20) -> (2,1),
\* (-5,0,-20) -> (-1,-2).
C12_ChunkOfPosition ==
    /\ Returned("get_chunk_from_position_absolute") =>
          /\ IsChunkOf(last.ret[1], last.position[1])
          /\ IsChunkOf(last.ret[2], last.position[3])
          /\ \A y \in AbsHeights :
                get_chunk_from_position_absolute(
                    << last.position[1], y, last.position[3] >>) = last.ret
    /\ get_chunk_from_position_absolute(<< F(17), F(0), F(20) >>) = << 1, 1 >>
    /\ get_chunk_from_position_absolute(<< F(32), F(0), F(20) >>) = << 2, 1 >>
    /\ get_chunk_from_position_absolute(<< F(-5), F(0), F(-20) >>) = << -1, -2 >>

\* C12 witness: a position with negative x that is not a multiple of the
\* chunk size has been mapped to a negative chunk coordinate
C12_Witness ==
    /\ Returned("get_chunk_from_position_absolute")
    /\ last.position[1] < F(0)
    /\ last.position[1] % F(CHUNK_SIZE) # 0
    /\ last.ret[1] = -1
    /\ last.ret[2] = -2

\* r lies in [0, CHUNK_SIZE) and differs from floor(a) by a multiple of the
\* chunk size
IsRelativeOf(r, a) ==
    /\ F(0) <= r
    /\ r < F(CHUNK_SIZE)
    /\ (Floor(a) - r) % F(CHUNK_SIZE) = 0

\* C13: relative_from_absolute returns x and z in [0, CHUNK_SIZE) that are
\* congruent to the floored absolute component modulo CHUNK_SIZE, negative
\* inputs included; (17,0,20) -> (1,0,4), (-1,0,-1) -> (15,0,15).
C13_RelativeInChunk ==
    /\ Returned("relative_from_absolute") =>
          /\ IsRelativeOf(last.ret[1], last.position[1])
          /\ IsRelativeOf(last.ret[3], last.position[3])
    /\ relative_from_absolute(<< F(17), F(0), F(20) >>) = << F(1), F(0), F(4) >>
    /\ relative_from_absolute(<< F(-1), F(0), F(-1) >>) = << F(15), F(0), F(15) >>

\* C13 witness: a negative, non-integer x has been mapped into the chunk
C13_Witness ==
    /\ Returned("relative_from_absolute")
    /\ last.position[1] < F(0)
    /\ ~IsInteger(last.position[1])
    /\ last.ret[1] = F(CHUNK_SIZE - 1)
    /\ last.position[3] < F(0)

\* C15: from_position returns Sand for every y <= water level, Dirt for every
\* y strictly between water level + 2 and 15, Stone for every y above 24, Sand
\* or Dirt inside the sand band, Dirt or Stone inside [15, 24], and never
\* Water, Grass, Wood or Leaf, for every x and z and every draw.
C15_Stratified ==
    Returned("from_position") =>
        LET y == last.position[2]
            t == last.ret
        IN  /\ y <= WATER_HEIGHT_LEVEL => t = "Sand"
            /\ (WATER_HEIGHT_LEVEL + 2 < y /\ y < 15) => t = "Dirt"
            /\ y > 24 => t = "Stone"
            /\ (WATER_HEIGHT_LEVEL <= y /\ y <= WATER_HEIGHT_LEVEL + 2) => t \in {"Sand", "Dirt"}
            /\ (15 <= y /\ y <= 24) => t \in {"Dirt", "Stone"}
            /\ t \notin {"Water", "Grass", "Wood", "Leaf"}

\* C15 witness: inside the sand band the draw has decided for Dirt at a
\* height where another position gets Sand
C15_Witness ==
    /\ Returned("from_position")
    /\ last.position[2] = WATER_HEIGHT_LEVEL + 1
    /\ last.ret = "Dirt"
    /\ \E x \in 0..(CHUNK_SIZE - 1), z \in ClassifierZ :
          from_position(salt, x, last.position[2], z) = "Sand"

\* the offsets of the blocks of a tree from its anchor, trunk first
TreeOffsets == trunk_pos \o leafs_pos

\* the block b of a tree with anchor a is the one at offset o: it sits at
\* a + o, and its relative position is where a + o lies in its owning chunk
IsTreeBlock(b, a, o) ==
    LET c == get_chunk_coords(b)
    IN  /\ b.absolute_position = << a[1] + F(o[1]), a[2] + F(o[2]), a[3] + F(o[3]) >>
        /\ b.position = << b.absolute_position[1] - F(c[1] * CHUNK_SIZE),
                           b.absolute_position[2],
                           b.absolute_position[3] - F(c[2] * CHUNK_SIZE) >>
        /\ ~is_outside_chunk(b.position)

\* the tree that get_blocks returns for anchor a: 3 Wood blocks at
\* a + (0,1,0), a + (0,2,0), a + (0,3,0), then 17 Leaf blocks, 20 in all, at
\* pairwise distinct absolute positions
IsTree(tb, a) ==
    /\ Len(tb) = 20
    /\ \A i \in 1..3 :
          /\ tb[i].block_type = "Wood"
          /\ tb[i].absolute_position = << a[1], a[2] + F(i), a[3] >>
    /\ \A i \in 4..20 : tb[i].block_type = "Leaf"
    /\ \A i \in 1..20 : IsTreeBlock(tb[i], a, TreeOffsets[i])
    /\ \A i, j \in 1..20 : i # j => tb[i].absolute_position # tb[j].absolute_position

\* C17 as stated: for every integer anchor position, get_blocks returns such
\* a tree.
C17_TreeShape ==
    Returned("get_blocks") => IsTree(last.ret, last.position)

\* C17 amended: for every integer anchor position a with a.y >= -1 (every
\* anchor place_trees passes is the top of a column, with a.y >= 0), negative
\* x and z and chunk borders included, get_blocks returns such a tree.
C17_TreeShapeAboveFloor ==
    (Returned("get_blocks") /\ last.position[2] >= F(-1)) =>
        IsTree(last.ret, last.position)

\* C17 witness: a tree anchored at the corner of a chunk left of the origin
\* has blocks in four chunks
C17_Witness ==
    /\ Returned("get_blocks")
    /\ last.position[2] >= F(-1)
    /\ last.position[1] < F(0)
    /\ Cardinality({ get_chunk_coords(last.ret[i]) : i \in 1..Len(last.ret) }) = 4

\* ================================================= generation claims
\* create_blocks_data has returned and place_trees has not begun
AfterCreate == pc = "create" /\ col = size

\* the terrain top of the column with index idx of this chunk
TerrainTop(idx) ==
    get_height_value(chunk_x, chunk_y, idx \div CHUNK_SIZE, idx % CHUNK_SIZE, noise)

\* C14: after create_blocks_data, in every column with terrain top y_top the
\* slots 0..=y_top hold blocks that are not Water, the slots above y_top up to
\* WATER_HEIGHT_LEVEL hold Water, no slot is empty, no Water lies at or below
\* y_top or above the water level, and the length is
\* max(y_top, WATER_HEIGHT_LEVEL) + 1.
C14_WaterFill ==
    AfterCreate =>
        \A idx \in Columns(blocks) :
            LET y_top == TerrainTop(idx)
            IN  /\ Len(blocks[idx + 1]) = Max(y_top, WATER_HEIGHT_LEVEL) + 1
                /\ \A h \in Heights(blocks, idx) :
                      /\ Slot(blocks, idx, h) # None
                      /\ h <= y_top => Slot(blocks, idx, h).block_type # "Water"
                      /\ h > y_top => Slot(blocks, idx, h).block_type = "Water"
                      /\ h > WATER_HEIGHT_LEVEL => Slot(blocks, idx, h).block_type # "Water"

\* C14 witness: the grid has a column that is filled with Water above its
\* terrain, one whose terrain ends at the water level, and one above it
C14_Witness ==
    /\ AfterCreate
    /\ \E idx \in Columns(blocks) :
          /\ TerrainTop(idx) < WATER_HEIGHT_LEVEL - 1
          /\ Slot(blocks, idx, WATER_HEIGHT_LEVEL).block_type = "Water"
    /\ \E idx \in Columns(blocks) : TerrainTop(idx) = WATER_HEIGHT_LEVEL
    /\ \E idx \in Columns(blocks) : TerrainTop(idx) > WATER_HEIGHT_LEVEL

\* the classifier's type for height h of the column with index idx
Classified(idx, h) == from_position(salt, idx \div CHUNK_SIZE, h, idx % CHUNK_SIZE)

\* C16: in every column produced by create_blocks_data the block at the
\* terrain top is Grass exactly when the classifier returns Dirt there and
\* has the classifier's type otherwise, and every block below the top has the
\* classifier's type, so that Grass never lies below the terrain top.
C16_SurfaceGrass ==
    AfterCreate =>
        \A idx \in Columns(blocks) :
            LET y_top == TerrainTop(idx)
            IN  /\ (Slot(blocks, idx, y_top).block_type = "Grass")
                      <=> (Classified(idx, y_top) = "Dirt")
                /\ Slot(blocks, idx, y_top).block_type # "Grass" =>
                      Slot(blocks, idx, y_top).block_type = Classified(idx, y_top)
                /\ \A h \in 0..(y_top - 1) :
                      /\ Slot(blocks, idx, h).block_type = Classified(idx, h)
                      /\ Slot(blocks, idx, h).block_type # "Grass"

\* C16 witness: one column has Grass on top of Dirt, another has a top inside
\* the sand band that the classifier made Sand
C16_Witness ==
    /\ AfterCreate
    /\ \E idx \in Columns(blocks) :
          /\ TerrainTop(idx) > 0
          /\ Slot(blocks, idx, TerrainTop(idx)).block_type = "Grass"
          /\ Slot(blocks, idx, TerrainTop(idx) - 1).block_type = "Dirt"
    /\ \E idx \in Columns(blocks) :
          /\ TerrainTop(idx) > WATER_HEIGHT_LEVEL
          /\ Slot(blocks, idx, TerrainTop(idx)).block_type = "Sand"

\* ============================================== tree placement claims
\* the topmost block of the column that the next attempt of place_trees draws
AttemptTop ==
    LET block_column == blocks[attempt_column(salt, chunk_x, chunk_y, rng) + 1]
    IN  block_column[Len(block_column)]

\* the step is one iteration of the loop of place_trees
IsAttempt == pc = "trees" /\ tries' = tries + 1

\* the step is an iteration that roots a tree / that meets a disqualified column
Rooted == IsAttempt /\ AttemptTop.block_type \notin {"Water", "Leaf"}
Disqualified == IsAttempt /\ AttemptTop.block_type \in {"Water", "Leaf"}

\* the slots of a grid that hold the block b
SlotsOf(bl, b) ==
    UNION { { << idx, h >> : h \in { k \in Heights(bl, idx) : Slot(bl, idx, k) = b } } :
              idx \in Columns(bl) }

\* the indices of a sequence that hold the block b
IndicesOf(seq, b) == { i \in 1..Len(seq) : seq[i] = b }

\* every block of a grid is owned by the chunk << cx, cy >>
GridIsOwn(bl, cx, cy) ==
    \A idx \in Columns(bl) : \A h \in Heights(bl, idx) :
        Slot(bl, idx, h) # None => get_chunk_coords(Slot(bl, idx, h)) = << cx, cy >>

\* C18: each block of a tree that place_trees places ends in exactly one
\* place: in one slot of this chunk's grid (the one of its relative position)
\* when its owning chunk is this chunk, and once in outside_blocks otherwise;
\* none is dropped or placed twice, outside_blocks only grows by the blocks of
\* other chunks, and no block of another chunk is ever in this chunk's grid.
C18_Routing ==
    [][/\ GridIsOwn(blocks', chunk_x, chunk_y)
       /\ Rooted =>
            LET tb == get_blocks(AttemptTop.absolute_position)
                pushed == SubSeq(outside_blocks', Len(outside_blocks) + 1,
                                 Len(outside_blocks'))
            IN  /\ SubSeq(outside_blocks', 1, Len(outside_blocks)) = outside_blocks
                /\ \A i \in 1..Len(tb) :
                      IF get_chunk_coords(tb[i]) = << chunk_x, chunk_y >>
                      THEN /\ SlotsOf(blocks', tb[i])
                                = { << ColumnIndex(tb[i].position),
                                       AsUsize(tb[i].position[2]) >> }
                           /\ IndicesOf(pushed, tb[i]) = {}
                      ELSE /\ SlotsOf(blocks', tb[i]) = {}
                           /\ Cardinality(IndicesOf(pushed, tb[i])) = 1
                /\ \A k \in 1..Len(pushed) : \E i \in 1..Len(tb) : tb[i] = pushed[k]]_vars

\* C18 witness: a tree at the border of the chunk has been placed, part of it
\* in the grid and part of it in outside_blocks
C18_Witness ==
    /\ pc = "trees"
    /\ number_of_trees < initial_number_of_trees(salt, chunk_x, chunk_y)
    /\ Len(outside_blocks) > 0
    /\ Len(outside_blocks) < Len(TreeOffsets)
    /\ \E idx \in Columns(blocks) : \E h \in Heights(blocks, idx) :
          Slot(blocks, idx, h).block_type = "Leaf"

\* C19: place_trees makes at most 100 attempts whatever the draws are: every
\* step of its loop is an attempt that counts up to 100 or the return, and the
\* loop is never stuck in a failure. The requested number of trees is below
\* MAX_TREES_PER_CHUNK, every tree placed takes one from the number still to
\* place, which never falls below zero, no attempt is made once that number
\* is zero, and leaving the loop with trees still to place is no failure.
C19_BoundedAttempts ==
    /\ [](/\ tries <= 100
          /\ number_of_trees >= 0
          /\ number_of_trees <= initial_number_of_trees(salt, chunk_x, chunk_y)
          /\ initial_number_of_trees(salt, chunk_x, chunk_y) < MAX_TREES_PER_CHUNK
          /\ pc \in {"trees", "done"} => ~panicked)
    /\ [][/\ IsAttempt => (number_of_trees > 0 /\ tries < 100)
          /\ Rooted => number_of_trees' = number_of_trees - 1
          /\ (pc = "trees" /\ (blocks' # blocks \/ outside_blocks' # outside_blocks))
                => Rooted
          /\ pc = "trees" => (IsAttempt \/ pc' = "done")
          /\ (pc = "trees" /\ pc' = "done") => (tries = 100 \/ number_of_trees = 0)]_vars

\* C19 witness: place_trees has returned after 100 attempts on disqualified
\* columns, with trees still to place
C19_Witness ==
    /\ pc = "done"
    /\ tries = 100
    /\ number_of_trees > 0
    /\ ~panicked

\* C20: an attempt on a column whose topmost block is Water or Leaf roots no
\* tree: it uses up one try, leaves the grid and outside_blocks as they are
\* and does not reduce the number of trees still to place.
C20_NoTreeOnWaterOrLeaf ==
    [][Disqualified =>
         /\ tries' = tries + 1
         /\ blocks' = blocks
         /\ outside_blocks' = outside_blocks
         /\ number_of_trees' = number_of_trees]_vars

\* C20 witness: a tree has been rooted on a column, the following attempt has
\* drawn the same column, now with Leaf on top, and trees are still to place
C20_Witness ==
    /\ pc = "trees"
    /\ tries = 2
    /\ number_of_trees > 0
    /\ number_of_trees = initial_number_of_trees(salt, chunk_x, chunk_y) - 1
    /\ attempt_column(salt, chunk_x, chunk_y, rng - 2)
          = attempt_column(salt, chunk_x, chunk_y, rng - 4)
    /\ LET block_column == blocks[attempt_column(salt, chunk_x, chunk_y, rng - 2) + 1]
       IN  block_column[Len(block_column)].block_type = "Leaf"

\* C22: calc_vertex_ao(side1, side2, corner) is 0 whenever side1 and side2 are
\* both true, whatever corner is, and otherwise 3 minus the number of true
\* arguments, so (false, false, false) gives 3 and the result is in 0..3;
\* convert_ao_u8_to_f32(ao) is 1 - ao/3, which is 1.0 for 0 and 0.0 for 3.
C22_VertexAo ==
    /\ Returned("calc_vertex_ao") =>
          LET side1 == last.position[1]
              side2 == last.position[2]
              corner == last.position[3]
              occupied == Cardinality({ i \in 1..3 : last.position[i] })
          IN  /\ (side1 /\ side2) => last.ret = 0
              /\ ~(side1 /\ side2) => last.ret = 3 - occupied
              /\ (~side1 /\ ~side2 /\ ~corner) => last.ret = 3
              /\ last.ret \in 0..3
    /\ Returned("convert_ao_u8_to_f32") =>
          /\ RatEq(last.ret, << 3 - last.position, 3 >>)
          /\ last.position = 0 => RatEq(last.ret, << 1, 1 >>)
          /\ last.position = 3 => RatEq(last.ret, << 0, 1 >>)

\* both sides occupied and the corner free: the level is 0, not 1
C22_Witness ==
    /\ Returned("calc_vertex_ao")
    /\ last.position = << TRUE, TRUE, FALSE >>
    /\ last.ret = 0

\* the list holds a pair for the chunk that owns p, and the grid of that pair
\* holds a block other than Water in the cell of floor(p) (the cell at height
\* 0 when p is below the world)
HoldsSolidAt(blocks_positions, p) ==
    \E i \in 1..Len(blocks_positions) :
        LET c == blocks_positions[i][1]
            grid == blocks_positions[i][2]
            x == Floor(p[1]) \div SCALE - c[1] * CHUNK_SIZE
            z == Floor(p[3]) \div SCALE - c[2] * CHUNK_SIZE
            yi == IF p[2] < 0 THEN 0 ELSE Floor(p[2]) \div SCALE
        IN  /\ IsChunkOf(c[1], p[1])
            /\ IsChunkOf(c[2], p[3])
            /\ x * CHUNK_SIZE + z < Len(grid)
            /\ yi < Len(grid[x * CHUNK_SIZE + z + 1])
            /\ grid[x * CHUNK_SIZE + z + 1][yi + 1] # None
            /\ grid[x * CHUNK_SIZE + z + 1][yi + 1].block_type # "Water"

\* C21: for every vertex position and every list of (chunk, grid) pairs, each
\* of the three probe cells counts as occupied exactly when the probe's chunk
\* is in the list and its grid holds a non-Water block at the probe's relative
\* position; a missing chunk, a height beyond the column, an empty slot and a
\* Water block count as unoccupied, and from_vertex_position does not fail.
C21_ProbeOccupancy ==
    Returned("from_vertex_position") =>
        LET vertex == last.position[1]
            list == ProbeLists[last.position[2]]
        IN  /\ ~last.ret.panics
            /\ \A k \in 1..3 :
                  last.ret.has[k] <=> HoldsSolidAt(list, probe_position(vertex, k))
            /\ last.ret.ao \in 0..3

\* a vertex on the western border of the chunk, the chunk alone in the list:
\* side1 is a solid block of the chunk, side2 lies in the missing neighbour
C21_Witness ==
    /\ Returned("from_vertex_position")
    /\ last.position[2] = 2
    /\ last.position[1][1] = F(-1) + HALF
    /\ last.ret.has[1]
    /\ ~last.ret.has[2]
    /\ ~last.ret.panics

\* C28: tree placement never replaces a block that is already in the grid:
\* every tree block that an attempt of place_trees adds to this chunk lands in
\* a slot that was empty or beyond the column's length, so every slot that
\* was occupied before the attempt holds the same block after it.
C28_NoOverwrite ==
    [][IsAttempt =>
          \A idx \in 0..(Len(blocks) - 1) :
              \A yi \in 0..(Len(blocks[idx + 1]) - 1) :
                  Slot(blocks, idx, yi) # None =>
                      Slot(blocks', idx, yi) = Slot(blocks, idx, yi)]_vars

\* the corner of the cube with the given number, as an offset
CornerOffset(index) ==
    << CUBE_VERTEX[index * 3 + 1], CUBE_VERTEX[index * 3 + 2], CUBE_VERTEX[index * 3 + 3] >>

\* vertex v stands at corner number index of the block b
IsCornerOf(v, index, b) ==
    \A c \in 1..3 : v.position[c] = b.position[c] + CornerOffset(index)[c]

\* C23: for each of the six face directions create_face_data returns exactly
\* 4 vertices, the direction's distinct cube corners in order of first
\* occurrence, and exactly 6 indices, each in 0..3, such that the vertex at
\* indices[i] is the cube corner named by entry i of the direction's corner
\* table; the 6 indices are two triangles of one quad: each has three
\* different corners, they share an edge, and the four corners lie in one
\* face of the cube.
C23_FaceData ==
    Returned("create_face_data") =>
        LET dir == last.position[1]
            block == last.position[2]
            table == get_indices(dir)
            vertex_data == last.ret.vertex_data
            indices == last.ret.indices
            FirstAt(j) == CHOOSE i \in 1..6 : /\ IsCornerOf(vertex_data[j], table[i], block)
                                              /\ \A h \in 1..(i - 1) : table[h] # table[i]
        IN  /\ Len(vertex_data) = 4
            /\ Len(indices) = 6
            /\ \A i \in 1..6 :
                  /\ indices[i] \in 0..3
                  /\ IsCornerOf(vertex_data[indices[i] + 1], table[i], block)
            /\ \A j \in 1..4 :
                  \E i \in 1..6 : /\ IsCornerOf(vertex_data[j], table[i], block)
                                  /\ \A h \in 1..(i - 1) : table[h] # table[i]
            /\ \A j, k \in 1..4 : j < k => FirstAt(j) < FirstAt(k)
            /\ Cardinality({ indices[1], indices[2], indices[3] }) = 3
            /\ Cardinality({ indices[4], indices[5], indices[6] }) = 3
            /\ Cardinality({ indices[1], indices[2], indices[3] }
                              \cap { indices[4], indices[5], indices[6] }) = 2
            /\ \E c \in 1..3 :
                  \A j \in 1..4 : vertex_data[j].position[c] = vertex_data[1].position[c]

\* the top face of a block under a tree, meshed with its neighbours listed
C23_Witness ==
    /\ Returned("create_face_data")
    /\ last.position[1] = "Top"
    /\ last.position[2].block_type = "Wood"
    /\ last.position[3] = 3
    /\ last.ret.indices = << 0, 1, 2, 0, 2, 3 >>
    /\ Len(last.ret.vertex_data) = 4

\* probe k of vertex v of the face reads the lock of the block in its cell:
\* the grid of the cell's chunk is in the list and the slot holds a block
ReadsBlock(v, k) ==
    LET pr == last.ret.probes[v][k]
    IN  /\ pr.grid # 0
        /\ get_block_at_relative(ProbeLists[last.position[3]][pr.grid][2], pr.cell.position) # None

\* C27: while it builds a face, create_face_data never requests a read lock
\* on a block whose read lock it already holds: none of the probes of the
\* face's four vertices reads the block being meshed, so the mesher cannot
\* block against a writer waiting for that block and the block never
\* occludes its own vertices.
C27_NoOwnCellProbe ==
    Returned("create_face_data") =>
        \A v \in 1..Len(last.ret.probes) :
            \A k \in 1..3 :
                ReadsBlock(v, k) =>
                    LET pr == last.ret.probes[v][k]
                    IN  get_block_at_relative(ProbeLists[last.position[3]][pr.grid][2],
                                              pr.cell.position) # last.position[2]

\* the world coordinate w wrapped into the tile: the value in [0, NOISE_SIZE)
\* that differs from w by a multiple of NOISE_SIZE
Wrapped(r, w) == r \in 0..(NOISE_SIZE - 1) /\ (w - r) % NOISE_SIZE = 0

\* C26: for every chunk coordinate, negative ones and ones beyond the noise
\* tile included, and every local (x, z), get_height_value wraps both sample
\* coordinates into [0, NOISE_SIZE) before it indexes the noise field: the
\* value read is the one at row z, column x of the tile for the wrapped world
\* coordinate, never a value of another row.
C26_WrapsIntoTile ==
    Returned("get_height_value") =>
        LET wx == last.position[1] * CHUNK_SIZE + last.position[3]
            wz == last.position[2] * CHUNK_SIZE + last.position[4]
            column == last.ret.index % NOISE_SIZE
            row == last.ret.index \div NOISE_SIZE
        IN  /\ Wrapped(column, wx)
            /\ Wrapped(row, wz)
            /\ last.ret.height = NoiseAt(noise, row * NOISE_SIZE + column) - 1

\* C30: for every chunk coordinate (x, y), those with a negative product
\* included, the computation of the tree-placement seed (the i32 product
\* x * 10 * y, converted to u64 and added to RNG_SEED) stays within range:
\* neither the product nor the 64-bit sum overflows.
C30_SeedInRange ==
    Returned("tree_seed") =>
        /\ ~last.ret.overflows.product
        /\ ~last.ret.overflows.sum
        /\ ~last.ret.panics

\* the corner points of chunk (cx, cy) in the plane y = 0
Corners(cx, cy) ==
    { << F(x), F(0), F(z) >> : x \in { cx * CHUNK_SIZE, cx * CHUNK_SIZE + CHUNK_SIZE },
                               z \in { cy * CHUNK_SIZE, cy * CHUNK_SIZE + CHUNK_SIZE } }

\* the signed distance of point to the plane, up to the length of the normal
SignedDist(plane, point) ==
    (point[1] - plane.point[1]) * plane.normal[1]
        + (point[2] - plane.point[2]) * plane.normal[2]
        + (point[3] - plane.point[3]) * plane.normal[3]

\* C24: is_visible returns true exactly when, for each of the four planes
\* (far, near, left, right), at least one of the chunk's four corner points
\* taken at y = 0 has signed distance >= 0 to that plane; a chunk whose four
\* corners are all strictly behind the far plane is excluded, and a corner
\* exactly on a plane (distance 0) counts as on the visible side.
C24_Visible ==
    Returned("is_visible") =>
        LET corners == Corners(last.position[1], last.position[2])
            planes == last.ret.planes
            Passes(p) == \E c \in corners : ~planes[p].nan /\ SignedDist(planes[p], c) >= 0
        IN  /\ last.ret.visible <=> \A p \in 1..4 : Passes(p)
            /\ (\A c \in corners : SignedDist(planes[1], c) < 0) => ~last.ret.visible
            /\ (\A p \in 1..4 : \E c \in corners :
                    ~planes[p].nan /\ SignedDist(planes[p], c) = 0) => last.ret.visible

\* a visible chunk that touches a plane: its nearest corner lies exactly on
\* the plane and every other corner behind it
C24_Witness ==
    /\ Returned("is_visible")
    /\ last.ret.visible
    /\ \E p \in 1..4 :
          /\ \E c \in Corners(last.position[1], last.position[2]) :
                SignedDist(last.ret.planes[p], c) = 0
          /\ \A c \in Corners(last.position[1], last.position[2]) :
                SignedDist(last.ret.planes[p], c) <= 0

\* number of read guards of the grid that are held after the first n entries
\* of a sequence of guard operations
ReadsHeld(log, n) ==
    Cardinality({ i \in 1..n : log[i] = "read" })
        - Cardinality({ i \in 1..n : log[i] = "drop_read" })

\* C29: at every placement attempt of place_trees, after any number of
\* earlier trees were placed, the randomly chosen column exists, is non-empty
\* and has an occupied last slot, so reading the column's topmost block never
\* fails; and place_trees never holds the grid's read lock at the moment it
\* requests the grid's write lock through add_block.
C29_TopReadable ==
    pc \in {"trees", "done"} =>
        /\ ~panicked
        /\ (pc = "trees" /\ number_of_trees # 0) =>
              LET idx == draw_coordinate(salt, chunk_x, chunk_y, rng) * CHUNK_SIZE
                            + draw_coordinate(salt, chunk_x, chunk_y, rng + 1)
              IN  /\ idx < Len(blocks)
                  /\ Len(blocks[idx + 1]) > 0
                  /\ blocks[idx + 1][Len(blocks[idx + 1])] # None
        /\ \A idx \in 1..Len(blocks) :
              Len(blocks[idx]) > 0 /\ blocks[idx][Len(blocks[idx])] # None
        /\ \A i \in 1..Len(lockst) :
              lockst[i] = "write" => ReadsHeld(lockst, i - 1) = 0

\* a second tree is being placed: an attempt after a tree was rooted finds
\* its column readable, and the earlier attempt took the write guard
C29_Witness ==
    /\ pc = "trees"
    /\ tries >= 2
    /\ number_of_trees # 0
    /\ number_of_trees < initial_number_of_trees(salt, chunk_x, chunk_y)
    /\ \E i \in 1..Len(lockst) : lockst[i] = "write"
    /\ ~panicked

\* ======================== from_vertex_position next to a writer of a grid
\* A mesher of chunk (-1, 0) evaluates from_vertex_position for one vertex at
\* its eastern border while a thread calls add_block on chunk (0, 0), whose
\* grid is `blocks`. lockst holds, for each entry of the list, the guards of
\* that grid's RwLock; tpc holds the position of both threads. The locks of
\* the single blocks are taken and dropped inside one step of the probe.

\* the list handed to the mesher: its own grid, and the grid that is written
MeshList == << << << -1, 0 >>, GridWest >>, << << 0, 0 >>, blocks >> >>

\* the entry of the list that the writer locks
WrittenGrid == 2

\* the vertices: every probe in the mesher's chunk, probes on both sides of
\* the border, every probe in the written chunk
MeshVertices ==
    { << x, F(WATER_HEIGHT_LEVEL) + HALF, HALF >> : x \in { F(-2) + HALF, F(-1) + HALF, HALF } }

\* the blocks the writer adds: on top of the column the probes look at, and
\* one higher
WriterBlocks ==
    { Block_new(<< F(0), F(y), F(1) >>, << 0, 0 >>, "Stone") :
        y \in { WATER_HEIGHT_LEVEL + 1, WATER_HEIGHT_LEVEL + 2 } }

\* what std::sync::RwLock does with a reader that arrives while a writer
\* waits is left to the platform: it queues the reader behind the writer, or
\* it lets the reader in
LockPolicies == { "writer_first", "unspecified" }

MeshInit ==
    /\ salt = 2
    /\ noise = 0
    /\ chunk_x = 0
    /\ chunk_y = 0
    /\ blocks = GridOrigin
    /\ outside_blocks = << >>
    /\ modified = FALSE
    /\ panicked = FALSE
    /\ ops = 0
    /\ last = Call("new", << 0, 0, 0 >>, FALSE, None)
    /\ pc = "mesh"
    /\ col = size
    /\ tries = 0
    /\ number_of_trees = 0
    /\ rng = 0
    /\ run = 1
    /\ first = << >>
    /\ contract_kept = TRUE
    /\ \E policy \in LockPolicies :
          lockst = [policy |-> policy,
                    readers |-> [g \in 1..Len(MeshList) |-> 0],
                    writer |-> [g \in 1..Len(MeshList) |-> FALSE]]
    /\ \E vertex \in MeshVertices, block \in WriterBlocks :
          tpc = [mesher |-> [pc |-> "find", k |-> 1, vertex |-> vertex, grid |-> 0,
                             has |-> << FALSE, FALSE, FALSE >>],
                 writer |-> [pc |-> "idle", block |-> block, delay |-> 0]]

\* the position of the mesher after iteration k of the loop
AfterProbe(k) == IF k = 3 THEN [pc |-> "return", k |-> 3] ELSE [pc |-> "find", k |-> k + 1]

\* from_vertex_position, the head of an iteration: find_map looks for the
\* grid of the probe's chunk; without it the iteration is over
MesherFind ==
    /\ pc = "mesh"
    /\ tpc.mesher.pc = "find"
    /\ LET p == probe_position(tpc.mesher.vertex, tpc.mesher.k)
           i == find_chunk(MeshList, get_chunk_from_position_absolute(p), 1)
       IN  tpc' = IF i = 0
                  THEN [tpc EXCEPT !.mesher.pc = AfterProbe(tpc.mesher.k).pc,
                                   !.mesher.k = AfterProbe(tpc.mesher.k).k]
                  ELSE [tpc EXCEPT !.mesher.pc = "lock", !.mesher.grid = i]
    /\ UNCHANGED << chunk_x, chunk_y, blocks, outside_blocks, modified, panicked, noise,
                    salt, ops, last, pc, col, tries, number_of_trees, rng, run, first,
                    contract_kept, lockst >>

\* blocks.read() returns its guard: no writer holds the grid, and the lock
\* lets this reader in
MesherLock ==
    /\ pc = "mesh"
    /\ tpc.mesher.pc = "lock"
    /\ LET g == tpc.mesher.grid
           writer_waits == tpc.writer.pc = "waiting" /\ g = WrittenGrid
       IN  /\ ~lockst.writer[g]
           /\ lockst.policy = "writer_first" => ~writer_waits
           /\ lockst' = [lockst EXCEPT !.readers[g] = @ + 1]
           /\ tpc' = [tpc EXCEPT !.mesher.pc = "probe",
                                 !.writer.delay = IF writer_waits THEN @ + 1 ELSE @]
    /\ UNCHANGED << chunk_x, chunk_y, blocks, outside_blocks, modified, panicked, noise,
                    salt, ops, last, pc, col, tries, number_of_trees, rng, run, first,
                    contract_kept >>

\* MesherProbe that keeps the guard of the grid when the iteration ends
MesherProbe_KeepsGuard ==
    /\ pc = "mesh"
    /\ tpc.mesher.pc = "probe"
    /\ LET k == tpc.mesher.k
           g == tpc.mesher.grid
           p == probe_position(tpc.mesher.vertex, k)
       IN  /\ tpc' = [tpc EXCEPT !.mesher.has[k] =
                                      probe_occupied(MeshList[g][2], relative_from_absolute(p)),
                                 !.mesher.pc = AfterProbe(k).pc,
                                 !.mesher.k = AfterProbe(k).k]
           /\ lockst' = lockst
    /\ UNCHANGED << chunk_x, chunk_y, blocks, outside_blocks, modified, panicked, noise,
                    salt, ops, last, pc, col, tries, number_of_trees, rng, run, first,
                    contract_kept >>

\* the rest of the iteration with the guard held: the column is indexed, the
\* slot is read, and the guard is dropped where the `if let` block ends
MesherProbe ==
    /\ pc = "mesh"
    /\ tpc.mesher.pc = "probe"
    /\ LET k == tpc.mesher.k
           g == tpc.mesher.grid
           p == probe_position(tpc.mesher.vertex, k)
       IN  /\ tpc' = [tpc EXCEPT !.mesher.has[k] =
                                      probe_occupied(MeshList[g][2], relative_from_absolute(p)),
                                 !.mesher.pc = AfterProbe(k).pc,
                                 !.mesher.k = AfterProbe(k).k]
           /\ lockst' = [lockst EXCEPT !.readers[g] = @ - 1]
    /\ UNCHANGED << chunk_x, chunk_y, blocks, outside_blocks, modified, panicked, noise,
                    salt, ops, last, pc, col, tries, number_of_trees, rng, run, first,
                    contract_kept >>

\* from_vertex_position returns calc_vertex_ao of the three flags
MesherReturn ==
    /\ pc = "mesh"
    /\ tpc.mesher.pc = "return"
    /\ tpc' = [tpc EXCEPT !.mesher.pc = "done"]
    /\ last' = Call("from_vertex_position", tpc.mesher.vertex, FALSE,
                    [has |-> tpc.mesher.has,
                     ao |-> calc_vertex_ao(tpc.mesher.has[1], tpc.mesher.has[2],
                                           tpc.mesher.has[3])])
    /\ ops' = ops + 1
    /\ UNCHANGED << chunk_x, chunk_y, blocks, outside_blocks, modified, panicked, noise,
                    salt, pc, col, tries, number_of_trees, rng, run, first,
                    contract_kept, lockst >>

\* add_block calls self.blocks.write(): the writer waits for the grid. A
\* probe that holds the grid at this moment is the first to delay it
WriterRequest ==
    /\ pc = "mesh"
    /\ tpc.writer.pc = "idle"
    /\ tpc' = [tpc EXCEPT !.writer.pc = "waiting",
                          !.writer.delay = IF lockst.readers[WrittenGrid] > 0 THEN 1 ELSE 0]
    /\ UNCHANGED << chunk_x, chunk_y, blocks, outside_blocks, modified, panicked, noise,
                    salt, ops, last, pc, col, tries, number_of_trees, rng, run, first,
                    contract_kept, lockst >>

\* write() returns its guard: no guard of the grid is alive
WriterAcquire ==
    /\ pc = "mesh"
    /\ tpc.writer.pc = "waiting"
    /\ lockst.readers[WrittenGrid] = 0
    /\ ~lockst.writer[WrittenGrid]
    /\ lockst' = [lockst EXCEPT !.writer[WrittenGrid] = TRUE]
    /\ tpc' = [tpc EXCEPT !.writer.pc = "writing"]
    /\ UNCHANGED << chunk_x, chunk_y, blocks, outside_blocks, modified, panicked, noise,
                    salt, ops, last, pc, col, tries, number_of_trees, rng, run, first,
                    contract_kept >>

\* the rest of add_block with the write guard held, and its return
WriterStore ==
    /\ pc = "mesh"
    /\ tpc.writer.pc = "writing"
    /\ blocks' = add_block_grid(blocks, tpc.writer.block)
    /\ modified' = add_block_modified(modified, TRUE)
    /\ lockst' = [lockst EXCEPT !.writer[WrittenGrid] = FALSE]
    /\ tpc' = [tpc EXCEPT !.writer.pc = "done"]
    /\ UNCHANGED << chunk_x, chunk_y, outside_blocks, panicked, noise,
                    salt, ops, last, pc, col, tries, number_of_trees, rng, run, first,
                    contract_kept >>

NextMesh ==
    \/ MesherFind
    \/ MesherLock
    \/ MesherProbe
    \/ MesherReturn
    \/ WriterRequest
    \/ WriterAcquire
    \/ WriterStore

SpecMesh == MeshInit /\ [][NextMesh]_vars

\* both threads are scheduled: a step that stays possible is taken
SpecMeshFair == SpecMesh /\ WF_vars(NextMesh)

\* the read guards of grids that the mesher holds
GuardsHeld == lockst.readers[1] + lockst.readers[2]

\* the mesher holds the guard of at most one grid, only inside a probe
ShortReadLocks ==
    /\ GuardsHeld <= 1
    /\ tpc.mesher.pc \in {"find", "lock", "return", "done"} => GuardsHeld = 0

\* C25 as stated: from_vertex_position holds the read lock of at most one
\* grid at a time, releases it before it starts the next probe and holds none
\* when it returns, so a writer waiting on a grid that the mesher of another
\* chunk probes is delayed by at most one probe.
C25_OneProbeDelay ==
    /\ ShortReadLocks
    /\ tpc.writer.delay <= 1

\* C25, amended: from_vertex_position holds the read lock of at most one grid
\* at a time, releases it before it starts the next probe and holds none when
\* it returns; a writer waiting on a grid that the mesher of another chunk
\* probes is delayed by at most the three probes of the call (by at most one
\* where the lock queues new readers behind a waiting writer), and it
\* eventually acquires the grid.
C25_ShortReadLocks ==
    /\ [](/\ ShortReadLocks
          /\ tpc.writer.delay <= 3
          /\ lockst.policy = "writer_first" => tpc.writer.delay <= 1)
    /\ (tpc.writer.pc = "waiting") ~> (tpc.writer.pc = "writing")

\* the writer got the grid after the probes of the call had passed it, and
\* the call has returned with no guard held
C25_Witness ==
    /\ pc = "mesh"
    /\ tpc.writer.pc = "done"
    /\ tpc.writer.delay = 3
    /\ tpc.mesher.pc = "done"
    /\ GuardsHeld = 0

====
